---- MODULE Spec2Model ----
(***************************************************************************)
(* matrix-health: federation server discovery (resolveMatrixServer), the   *)
(* health probe (checkServerOnline), the shared room/server tree           *)
(* (treeData, TreeNode) and the sweep loop (runServerCheckLoop).           *)
(*                                                                         *)
(* Go strings are sequences of one-character strings, so that Split, Trim  *)
(* and Sprintf act on them as the library does.  Messages that the code    *)
(* only ever prints as a whole ("OK", "Failed (Unreachable)", ...) are      *)
(* kept as one piece of such a sequence.                                   *)
(***************************************************************************)
EXTENDS Integers, Sequences, FiniteSets, TLC

\* ------------------------------------------------------------------------
\* Bounds of the model
\* ------------------------------------------------------------------------
\* longest port written in an m.server field
MaxPortLen == 2
\* longest answer of one SRV lookup
MaxSrvRecords == 2
\* number of sweep cycles that are explored
MaxCycles == 2
\* the same, when the joined-rooms list may name a room twice
MaxRacingCycles == 1
\* longest joined-rooms list returned by the homeserver
MaxJoined == 2

\* ------------------------------------------------------------------------
\* strings
\* ------------------------------------------------------------------------
Digits == <<"0", "1", "2", "3", "4", "5", "6", "7", "8", "9">>

DigitChars == {Digits[i] : i \in 1..10}

HexChars == DigitChars \cup {"a", "b", "c", "d", "e", "f"}

DigitVal(c) == (CHOOSE i \in 1..10 : Digits[i] = c) - 1

\* strconv / the %d verb of fmt.Sprintf for a non-negative integer
RECURSIVE Itoa(_)
Itoa(n) == IF n < 10 THEN <<Digits[n + 1]>>
           ELSE Itoa(n \div 10) \o <<Digits[(n % 10) + 1]>>

\* value of a string of decimal digits
RECURSIVE Atoi(_)
Atoi(s) == IF s = <<>> THEN 0
           ELSE 10 * Atoi(SubSeq(s, 1, Len(s) - 1)) + DigitVal(s[Len(s)])

AllIn(s, chars) == \A i \in 1..Len(s) : s[i] \in chars

Count(s, c) == Cardinality({i \in 1..Len(s) : s[i] = c})

\* strings.Split(s, sep) for a one-character separator
RECURSIVE Split(_, _)
Split(s, sep) ==
    IF \A i \in 1..Len(s) : s[i] # sep THEN <<s>>
    ELSE LET i == CHOOSE k \in 1..Len(s) :
                      s[k] = sep /\ \A j \in 1..(k - 1) : s[j] # sep
         IN  <<SubSeq(s, 1, i - 1)>> \o Split(SubSeq(s, i + 1, Len(s)), sep)

RECURSIVE TrimLeft(_, _)
TrimLeft(s, c) == IF s # <<>> /\ s[1] = c THEN TrimLeft(Tail(s), c) ELSE s

RECURSIVE TrimRight(_, _)
TrimRight(s, c) == IF s # <<>> /\ s[Len(s)] = c
                   THEN TrimRight(SubSeq(s, 1, Len(s) - 1), c) ELSE s

\* strings.Trim(s, cutset) for a one-character cutset: both ends, repeatedly
Trim(s, c) == TrimRight(TrimLeft(s, c), c)

\* ------------------------------------------------------------------------
\* net.ParseIP
\* ------------------------------------------------------------------------
\* dotted-decimal IPv4: four fields of one to three digits, each at most 255
ParseIPv4(s) ==
    LET p == Split(s, ".")
    IN  /\ Len(p) = 4
        /\ \A i \in 1..4 : /\ p[i] # <<>>
                           /\ Len(p[i]) <= 3
                           /\ AllIn(p[i], DigitChars)
                           /\ Atoi(p[i]) <= 255

\* IPv6 text form: groups of one to four hex digits, at most one "::".
\* (The form with an embedded dotted quad is longer than any input used.)
ParseIPv6(s) ==
    LET p == Split(s, ":")
        n == Len(p)
        empties == {i \in 1..n : p[i] = <<>>}
    IN  /\ n >= 3
        /\ \A i \in 1..n : Len(p[i]) <= 4 /\ AllIn(p[i], HexChars)
        /\ \/ empties = {} /\ n = 8
           \/ \E k \in 2..(n - 1) : empties = {k} /\ n <= 8
           \/ empties = {1, 2} /\ n <= 9
           \/ empties = {n - 1, n} /\ n <= 9
           \/ empties = {1, 2, 3} /\ n = 3

\* net.ParseIP(server) != nil
ParseIP(s) == ParseIPv4(s) \/ ParseIPv6(s)

\* ------------------------------------------------------------------------
\* program constants and messages
\* ------------------------------------------------------------------------
\* default Matrix federation port
DefaultPort == 8448

\* http.StatusOK
StatusOK == 200

\* the ":8448" that resolveMatrixServer appends
WithDefaultPort(host) == host \o <<":">> \o Itoa(DefaultPort)

\* error of resolveMatrixServer: fmt.Errorf("could not resolve ... %s", server)
ResolveError(server) == <<"could not resolve Matrix server for ">> \o server

NoError == <<>>

StatusUnknown == <<"unknown">>

StatusOnline == <<"OK">>

StatusUnreachable == <<"Failed (Unreachable)">>

\* fmt.Sprintf("Failed (Delegation Failed: %v)", err)
StatusDelegationFailed(err) == <<"Failed (Delegation Failed: ">> \o err \o <<")">>

\* ------------------------------------------------------------------------
\* what the network can answer
\* ------------------------------------------------------------------------
RECURSIVE SeqsUpTo(_, _)
SeqsUpTo(S, n) == IF n = 0 THEN {<<>>}
                  ELSE LET shorter == SeqsUpTo(S, n - 1)
                       IN  shorter \cup {Append(q, x) : q \in shorter, x \in S}

\* hosts that a well-known document delegates to: name, IPv4, IPv6 literal
DelegatedHosts == { <<"b">>,
                    <<"b", ".", "c">>,
                    <<"1", ".", "2", ".", "3", ".", "4">>,
                    <<"[", ":", ":", "1", "]">>,
                    <<"[", "a", ":", ":", "1", "]">> }

PortDigits == {"4", "8"}

DelegatedPorts == SeqsUpTo(PortDigits, MaxPortLen) \ {<<>>}

\* well-formed values of the m.server field: host or host:port
ServerFields == DelegatedHosts
                \cup {h \o <<":">> \o p : h \in DelegatedHosts, p \in DelegatedPorts}

\* body of the well-known answer: json = it decodes into the result struct
WellKnownBodies ==
    {[json |-> FALSE, hasServer |-> FALSE, server |-> <<>>],
     [json |-> TRUE, hasServer |-> FALSE, server |-> <<>>]}
    \cup {[json |-> TRUE, hasServer |-> TRUE, server |-> f] :
             f \in ServerFields \cup {<<>>}}

HttpCodes == {StatusOK, 404}

NoResponse == [kind |-> "none"]

\* what a server sends with another status: an error page, or a delegation
\* document all the same
ErrorBodies ==
    {[json |-> FALSE, hasServer |-> FALSE, server |-> <<>>],
     [json |-> TRUE, hasServer |-> TRUE, server |-> <<"b">>]}

WellKnownResponses ==
    {[kind |-> "err"]}
    \cup {[kind |-> "resp", code |-> StatusOK, body |-> b] : b \in WellKnownBodies}
    \cup {[kind |-> "resp", code |-> c, body |-> b] :
             c \in HttpCodes \ {StatusOK}, b \in ErrorBodies}

\* SRV targets: fully qualified, without the final dot, and the root
SrvTargets == { <<"x", ".">>, <<"x">>, <<"y", ".", "z", ".">>, <<".">> }

SrvPorts == {DefaultPort, 443}

SrvRecords == {[Target |-> t, Port |-> p] : t \in SrvTargets, p \in SrvPorts}

SrvResponses ==
    {[kind |-> "err"]}
    \cup {[kind |-> "ok", records |-> rs] : rs \in SeqsUpTo(SrvRecords, MaxSrvRecords)}

HostResponses == {[kind |-> "err"], [kind |-> "ok"]}

\* body of the probe answer: a JSON object, the JSON value null, another
\* well-formed JSON value (array, string, number), or no JSON at all
ProbeBodies == {"object", "null", "array", "malformed"}

ProbeResponses ==
    {[kind |-> "err"]}
    \cup {[kind |-> "resp", code |-> c, body |-> b] :
             c \in HttpCodes, b \in ProbeBodies}

\* ------------------------------------------------------------------------
\* resolveMatrixServer, step by step
\* ------------------------------------------------------------------------
Resolved(addr) == [ok |-> TRUE, addr |-> addr]

NotResolved == [ok |-> FALSE, addr |-> <<>>]

\* json.NewDecoder(resp.Body).Decode(&result): the field stays "" if absent
WellKnownDecode(body) ==
    [err |-> ~body.json,
     Server |-> IF body.json /\ body.hasServer THEN body.server ELSE <<>>]

\* a WellKnownStep that returns the field as it is, port or not
WellKnownStepNoDefault(resp) ==
    IF resp.kind = "resp" /\ resp.code = StatusOK
    THEN LET result == WellKnownDecode(resp.body)
         IN  IF ~result.err /\ result.Server # <<>>
             THEN Resolved(result.Server)
             ELSE NotResolved
    ELSE NotResolved

\* a WellKnownStep that takes the document whatever the status code
WellKnownStepAnyStatus(resp) ==
    IF resp.kind = "resp"
    THEN LET result == WellKnownDecode(resp.body)
         IN  IF ~result.err /\ result.Server # <<>>
             THEN IF Len(Split(result.Server, ":")) = 2
                  THEN Resolved(result.Server)
                  ELSE Resolved(WithDefaultPort(result.Server))
             ELSE NotResolved
    ELSE NotResolved

\* step 2: the .well-known answer
WellKnownStep(resp) ==
    IF resp.kind = "resp" /\ resp.code = StatusOK
    THEN LET result == WellKnownDecode(resp.body)
         IN  IF ~result.err /\ result.Server # <<>>
             THEN IF Len(Split(result.Server, ":")) = 2
                  THEN Resolved(result.Server)
                  ELSE Resolved(WithDefaultPort(result.Server))
             ELSE NotResolved
    ELSE NotResolved

\* a SrvStep that keeps the target's trailing dot
SrvStepNoTrim(resp) ==
    IF resp.kind = "ok" /\ Len(resp.records) > 0
    THEN LET srv == resp.records[1]
         IN  Resolved(srv.Target \o <<":">> \o Itoa(srv.Port))
    ELSE NotResolved

\* steps 3 and 4: the answer of net.LookupSRV
SrvStep(resp) ==
    IF resp.kind = "ok" /\ Len(resp.records) > 0
    THEN LET srv == resp.records[1]
         IN  Resolved(Trim(srv.Target, ".") \o <<":">> \o Itoa(srv.Port))
    ELSE NotResolved

\* step 5: the answer of net.LookupHost
HostStep(server, resp) ==
    IF resp.kind = "ok" THEN Resolved(WithDefaultPort(server)) ELSE NotResolved

\* checkServerOnline: the request went through and the body decodes into a
\* map[string]interface{}; the status code is not looked at
checkServerOnline(resp) ==
    /\ resp.kind = "resp"
    /\ resp.body \in {"object", "null"}

\* a checkServer with the two returns after the probe exchanged
checkServerSwapped(err, online) ==
    IF err # NoError THEN StatusDelegationFailed(err)
    ELSE IF online THEN StatusUnreachable
    ELSE StatusOnline

\* a checkServer that gives "unknown" for a server it cannot resolve
checkServerUnknown(err, online) ==
    IF err # NoError THEN StatusUnknown
    ELSE IF online THEN StatusOnline
    ELSE StatusUnreachable

\* checkServer, given what resolveMatrixServer and checkServerOnline returned
checkServer(err, online) ==
    IF err # NoError THEN StatusDelegationFailed(err)
    ELSE IF online THEN StatusOnline
    ELSE StatusUnreachable

\* ------------------------------------------------------------------------
\* the tree: treeData and the TreeNode objects it points to
\* ------------------------------------------------------------------------
VARIABLES
    treeData,     \* sync.Map: room id -> pointer to its room node (0: no entry)
    nodes,        \* the allocated TreeNode objects; a pointer is an index
    task,         \* frame of the server goroutine that is followed step by step
    calls,        \* network calls that goroutine has issued, in order
    obs,          \* the answer each of its calls got
    loop,         \* runServerCheckLoop: where the for-loop stands, cycle number
    joinedRooms,  \* joinedRooms.JoinedRooms of the running cycle
    gtask,        \* room goroutines of the running cycle, by position in the list
    stask,        \* server goroutines of the running cycle
    fetches,      \* how often getRoomDetails ran for each room id
    snap          \* frame of the ServerTreeHandler call in progress

vars == <<treeData, nodes, task, calls, obs, loop, joinedRooms, gtask, stask,
          fetches, snap>>

sweepVars == <<loop, joinedRooms, gtask, stask, fetches, snap>>

taskVars == <<task, calls, obs>>

LogRoom == <<"!", "l">>

RoomIDs == { <<"!", "p">>, <<"!", "q">>, <<"!", "r">>, LogRoom }

NullNode == 0

\* var logMutex sync.Mutex of a round of the loop: nobody holds it
NoHolder == <<>>

\* a server node created without a status
NewServerNodeNoStatus(server) ==
    [Name |-> server, Avatar |-> <<>>, Status |-> <<>>,
     UserCount |-> 0, Children |-> <<>>]

\* &TreeNode{Name: server, Status: "unknown"}
NewServerNode(server) ==
    [Name |-> server, Avatar |-> <<>>, Status |-> StatusUnknown,
     UserCount |-> 0, Children |-> <<>>]

\* a room node created with the status of a server node
NewRoomNodeUnknown(name, avatar) ==
    [Name |-> name, Avatar |-> avatar, Status |-> <<"unknown">>,
     UserCount |-> 0, Children |-> <<>>]

\* &TreeNode{Name: formattedName, Avatar: ..., Status: "ok", Children: {}}
NewRoomNode(name, avatar) ==
    [Name |-> name, Avatar |-> avatar, Status |-> <<"ok">>,
     UserCount |-> 0, Children |-> <<>>]

\* a getOrCreateServerNode loop that compares the wrong field
FindChildByStatus(heap, children, server) ==
    IF \E i \in 1..Len(children) : heap[children[i]].Status = server
    THEN children[CHOOSE i \in 1..Len(children) :
                      heap[children[i]].Status = server]
    ELSE NullNode

\* a loop that returns the first child whatever its name
FindChildFirst(heap, children, server) ==
    IF children # <<>> THEN children[1] ELSE NullNode

\* the loop of getOrCreateServerNode: first child named server, or NullNode
FindChild(heap, children, server) ==
    IF \E i \in 1..Len(children) : heap[children[i]].Name = server
    THEN children[CHOOSE i \in 1..Len(children) :
                      /\ heap[children[i]].Name = server
                      /\ \A j \in 1..(i - 1) : heap[children[j]].Name # server]
    ELSE NullNode

\* roomNode.Children = append(children, serverNode) with a fresh serverNode
AppendChild(heap, roomNode, children, server) ==
    LET serverNode == Len(heap) + 1
    IN  [Append(heap, NewServerNode(server))
            EXCEPT ![roomNode].Children = Append(children, serverNode)]

\* getOrCreateServerNode run without interruption
getOrCreateServerNode(heap, roomNode, server) ==
    LET found == FindChild(heap, heap[roomNode].Children, server)
    IN  IF found # NullNode
        THEN [heap |-> heap, node |-> found]
        ELSE [heap |-> AppendChild(heap, roomNode, heap[roomNode].Children, server),
              node |-> Len(heap) + 1]

\* ------------------------------------------------------------------------
\* one server goroutine followed through checkServer
\* ------------------------------------------------------------------------
\* servers handed to checkServer: names, IP literals, and near misses
TaskServers == { <<"a">>,
                 <<"a", ".", "b">>,
                 <<"1", ".", "2", ".", "3", ".", "4">>,
                 <<":", ":", "1">>,
                 <<"1", ".", "2", ".", "3">>,
                 <<"[", ":", ":", "1", "]">> }

NoCalls == [wellknown |-> NoResponse, srvfed |-> NoResponse,
            srvdep |-> NoResponse, host |-> NoResponse, probe |-> NoResponse]

Frame(pc, server, serverNode) ==
    [pc |-> pc, server |-> server, serverNode |-> serverNode,
     matrixServer |-> <<>>, err |-> NoError, status |-> <<>>]

IdleLoop == [pc |-> "idle", cycle |-> 0, err |-> FALSE, overran |-> FALSE,
                logMutex |-> NoHolder, logged |-> {}]

\* no request for /tree is being served
NoSnapshot ==
    [pc |-> "idle", root |-> <<>>, copy |-> <<>>, room |-> 0, fields |-> <<>>,
     children |-> <<>>, child |-> 0, status |-> <<>>, held |-> {},
     kids |-> <<>>, out |-> <<>>]

\* a room node with the server node that line 238 has just handed over
TaskInit ==
    /\ \E server \in TaskServers :
          LET room == getOrCreateServerNode(
                          <<NewRoomNode(<<"t", " - ", "#", "p">>, <<>>)>>, 1, server)
          IN  /\ nodes = room.heap
              /\ task = Frame("parseip", server, room.node)
    /\ treeData = [r \in RoomIDs |-> IF r = <<"!", "p">> THEN 1 ELSE NullNode]
    /\ calls = <<>>
    /\ obs = NoCalls
    /\ loop = IdleLoop
    /\ joinedRooms = <<>>
    /\ gtask = <<>>
    /\ stask = <<>>
    /\ fetches = [r \in RoomIDs |-> 0]
    /\ snap = NoSnapshot

\* a step that records its address and goes on to the next step all the same
ResolveNoReturn(r, next) ==
    task' = [task EXCEPT !.pc = next, !.matrixServer = r.addr]

\* a step of resolveMatrixServer returns addr, or falls through to next
ResolveReturn(r, next) ==
    IF r.ok
    THEN task' = [task EXCEPT !.pc = "resolved", !.matrixServer = r.addr]
    ELSE task' = [task EXCEPT !.pc = next]

\* resolveMatrixServer without its IP-literal shortcut
ResolveSkipParseIP ==
    /\ task.pc = "parseip"
    /\ task' = [task EXCEPT !.pc = "wellknown"]
    /\ UNCHANGED <<calls, obs, treeData, nodes, sweepVars>>

\* 1. net.ParseIP(server) != nil
ResolveParseIP ==
    /\ task.pc = "parseip"
    /\ ResolveReturn(IF ParseIP(task.server)
                     THEN Resolved(WithDefaultPort(task.server))
                     ELSE NotResolved, "wellknown")
    /\ UNCHANGED <<calls, obs, treeData, nodes, sweepVars>>

\* 2. client.Get(wellKnownURL)
ResolveWellKnown ==
    /\ task.pc = "wellknown"
    /\ \E resp \in WellKnownResponses :
          /\ calls' = Append(calls, "wellknown")
          /\ obs' = [obs EXCEPT !.wellknown = resp]
          /\ ResolveReturn(WellKnownStep(resp), "srvfed")
    /\ UNCHANGED <<treeData, nodes, sweepVars>>

\* 3. net.LookupSRV("matrix-fed", "tcp", server)
ResolveSrvFed ==
    /\ task.pc = "srvfed"
    /\ \E resp \in SrvResponses :
          /\ calls' = Append(calls, "srvfed")
          /\ obs' = [obs EXCEPT !.srvfed = resp]
          /\ ResolveReturn(SrvStep(resp), "srvdep")
    /\ UNCHANGED <<treeData, nodes, sweepVars>>

\* 4. net.LookupSRV("matrix", "tcp", server)
ResolveSrvDeprecated ==
    /\ task.pc = "srvdep"
    /\ \E resp \in SrvResponses :
          /\ calls' = Append(calls, "srvdep")
          /\ obs' = [obs EXCEPT !.srvdep = resp]
          /\ ResolveReturn(SrvStep(resp), "host")
    /\ UNCHANGED <<treeData, nodes, sweepVars>>

\* 5. net.LookupHost(server), and the error return after it
ResolveLookupHost ==
    /\ task.pc = "host"
    /\ \E resp \in HostResponses :
          /\ calls' = Append(calls, "host")
          /\ obs' = [obs EXCEPT !.host = resp]
          /\ LET r == HostStep(task.server, resp)
             IN  IF r.ok
                 THEN task' = [task EXCEPT !.pc = "resolved",
                                           !.matrixServer = r.addr]
                 ELSE task' = [task EXCEPT !.pc = "resolved",
                                           !.err = ResolveError(task.server)]
    /\ UNCHANGED <<treeData, nodes, sweepVars>>

\* a checkServer that probes without looking at err
CheckServerIgnoreErr ==
    /\ task.pc = "resolved"
    /\ task' = [task EXCEPT !.pc = "probe"]
    /\ UNCHANGED <<calls, obs, treeData, nodes, sweepVars>>

\* checkServer after resolveMatrixServer returned: err != nil ends it
CheckServerResolved ==
    /\ task.pc = "resolved"
    /\ IF task.err # NoError
       THEN task' = [task EXCEPT !.pc = "update",
                                 !.status = checkServer(task.err, FALSE)]
       ELSE task' = [task EXCEPT !.pc = "probe"]
    /\ UNCHANGED <<calls, obs, treeData, nodes, sweepVars>>

\* checkServer: checkServerOnline(matrixServer) and the two returns after it
CheckServerProbe ==
    /\ task.pc = "probe"
    /\ \E resp \in ProbeResponses :
          /\ calls' = Append(calls, "probe")
          /\ obs' = [obs EXCEPT !.probe = resp]
          /\ task' = [task EXCEPT
                         !.pc = "update",
                         !.status = checkServer(task.err, checkServerOnline(resp))]
    /\ UNCHANGED <<treeData, nodes, sweepVars>>

\* a goroutine that writes the status while the probe is still to come
TaskUpdateStatusEarly ==
    /\ task.pc \in {"probe", "update"}
    /\ nodes' = [nodes EXCEPT ![task.serverNode].Status = task.status]
    /\ task' = [task EXCEPT !.pc = IF task.pc = "probe" THEN "probe" ELSE "done"]
    /\ UNCHANGED <<calls, obs, treeData, sweepVars>>

\* serverNode.Status = status
TaskUpdateStatus ==
    /\ task.pc = "update"
    /\ nodes' = [nodes EXCEPT ![task.serverNode].Status = task.status]
    /\ task' = [task EXCEPT !.pc = "done"]
    /\ UNCHANGED <<calls, obs, treeData, sweepVars>>

TaskNext ==
    \/ ResolveParseIP
    \/ ResolveWellKnown
    \/ ResolveSrvFed
    \/ ResolveSrvDeprecated
    \/ ResolveLookupHost
    \/ CheckServerResolved
    \/ CheckServerProbe
    \/ TaskUpdateStatus

SpecTask == TaskInit /\ [][TaskNext]_vars

\* ------------------------------------------------------------------------
\* properties of resolveMatrixServer and checkServer
\* ------------------------------------------------------------------------
ResolveOrder == <<"wellknown", "srvfed", "srvdep", "host">>

\* the calls resolveMatrixServer made (the probe is checkServer's)
ResolveCalls == SelectSeq(calls, LAMBDA c : c # "probe")

\* resolveMatrixServer has returned
Returned == task.pc \in {"resolved", "probe", "update", "done"}

\* what the k-th discovery call yielded, from the answer it got
StepResult(k) ==
    CASE k = 1 -> WellKnownStep(obs.wellknown)
      [] k = 2 -> SrvStep(obs.srvfed)
      [] k = 3 -> SrvStep(obs.srvdep)
      [] k = 4 -> HostStep(task.server, obs.host)

\* C1: for a server that is no IP literal the discovery calls are made in the
\* order well-known, _matrix-fed SRV, _matrix SRV, host lookup, each at most
\* once, a call is made only after every earlier one failed, and the value
\* returned is that of the first call that succeeded.
C1_FirstSuccessWins ==
    ~ParseIP(task.server) =>
        LET n == Len(ResolveCalls)
        IN  /\ n <= 4
            /\ ResolveCalls = SubSeq(ResolveOrder, 1, n)
            /\ \A k \in 1..(n - 1) : ~StepResult(k).ok
            /\ Returned =>
                  /\ n >= 1
                  /\ IF StepResult(n).ok
                     THEN /\ task.matrixServer = StepResult(n).addr
                          /\ task.err = NoError
                     ELSE n = 4 /\ task.err # NoError

\* the deprecated SRV record decided, after two failed steps
C1_Witness ==
    /\ task.pc = "done"
    /\ ~ParseIP(task.server)
    /\ ResolveCalls = <<"wellknown", "srvfed", "srvdep">>
    /\ task.matrixServer = <<"x", ":", "4", "4", "3">>

\* C2: an input that parses as an IP literal is returned with ":8448"
\* appended and no discovery call is made for it.
C2_IPLiteralNoNetwork ==
    ParseIP(task.server) /\ Returned =>
        /\ task.matrixServer = task.server \o <<":", "8", "4", "4", "8">>
        /\ task.err = NoError
        /\ ResolveCalls = <<>>

C2_Witness ==
    /\ task.pc = "done"
    /\ task.server = <<":", ":", "1">>
    /\ task.matrixServer = <<":", ":", "1", ":", "8", "4", "4", "8">>

\* the text after the last ':' of a field, and the text before it
LastColon(f) == CHOOSE i \in 1..Len(f) :
                    f[i] = ":" /\ \A j \in (i + 1)..Len(f) : f[j] # ":"

\* the field is host:port: a non-empty decimal port after the last ':', and
\* before it a bracketed IPv6 literal or a host without any ':'
HasExplicitPort(f) ==
    /\ Count(f, ":") >= 1
    /\ LET i == LastColon(f)
           host == SubSeq(f, 1, i - 1)
           port == SubSeq(f, i + 1, Len(f))
       IN  /\ port # <<>>
           /\ AllIn(port, DigitChars)
           /\ host # <<>>
           /\ \/ Count(host, ":") = 0
              \/ host[1] = "[" /\ host[Len(host)] = "]"

\* the well-known step yielded an address from this m.server field
WellKnownUsed == Returned /\ StepResult(1).ok

WellKnownField == obs.wellknown.body.server

\* C3: a well-known m.server field that already is host:port is returned
\* verbatim, an IPv6 literal with a port included.
C3_ExplicitPortVerbatim ==
    WellKnownUsed /\ HasExplicitPort(WellKnownField) =>
        task.matrixServer = WellKnownField

\* C4: a non-empty well-known m.server field without a port is returned with
\* ":8448" appended once.
C4_DefaultPortAppended ==
    WellKnownUsed /\ ~HasExplicitPort(WellKnownField) =>
        task.matrixServer = WellKnownField \o <<":", "8", "4", "4", "8">>

\* an IPv6 literal without a port got the default port
C4_Witness ==
    /\ task.pc = "done"
    /\ StepResult(1).ok
    /\ WellKnownField = <<"[", ":", ":", "1", "]">>
    /\ task.matrixServer = <<"[", ":", ":", "1", "]", ":", "8", "4", "4", "8">>

StripTrailingDot(t) ==
    IF t # <<>> /\ t[Len(t)] = "." THEN SubSeq(t, 1, Len(t) - 1) ELSE t

PortText(p) == CASE p = 8448 -> <<"8", "4", "4", "8">>
                 [] p = 443 -> <<"4", "4", "3">>

\* C5: when the well-known step failed and the _matrix-fed lookup returned
\* records, the result is the first record's target without its trailing dot,
\* ':' and the first record's port; when the well-known step succeeded no SRV
\* lookup is made and its value is the result.
C5_FirstSrvRecord ==
    Returned =>
        /\ (obs.srvfed.kind = "ok" /\ Len(obs.srvfed.records) > 0) =>
              /\ ~StepResult(1).ok
              /\ task.matrixServer =
                    StripTrailingDot(obs.srvfed.records[1].Target)
                    \o <<":">> \o PortText(obs.srvfed.records[1].Port)
        /\ StepResult(1).ok =>
              /\ obs.srvfed = NoResponse
              /\ obs.srvdep = NoResponse
              /\ task.matrixServer = StepResult(1).addr

\* two records, the first one "y.z." port 443
C5_Witness ==
    /\ task.pc = "done"
    /\ obs.wellknown # NoResponse
    /\ obs.srvfed.kind = "ok"
    /\ Len(obs.srvfed.records) = 2
    /\ obs.srvfed.records[1] # obs.srvfed.records[2]
    /\ task.matrixServer = <<"y", ".", "z", ":", "4", "4", "3">>

\* every discovery step was tried and failed
AllStepsFailed ==
    /\ ~ParseIP(task.server)
    /\ Len(ResolveCalls) = 4
    /\ \A k \in 1..4 : ~StepResult(k).ok

\* C6: when all discovery steps fail, resolveMatrixServer returns an error
\* that names the server, no probe is sent, and the status written to the
\* server node is "Failed (Delegation Failed: <that error>)".
C6_DelegationFailed ==
    AllStepsFailed /\ Returned =>
        /\ task.err = <<"could not resolve Matrix server for ">> \o task.server
        /\ task.matrixServer = <<>>
        /\ obs.probe = NoResponse
        /\ "probe" \notin {calls[i] : i \in 1..Len(calls)}
        /\ task.pc = "done" =>
              nodes[task.serverNode].Status =
                  <<"Failed (Delegation Failed: ">> \o task.err \o <<")">>

C6_Witness ==
    /\ task.pc = "done"
    /\ AllStepsFailed
    /\ task.server = <<"a", ".", "b">>
    /\ nodes[task.serverNode].Status =
          <<"Failed (Delegation Failed: ",
            "could not resolve Matrix server for ", "a", ".", "b", ")">>

SuccessCodes == {200}

\* bodies that parse as the JSON document the version endpoint sends
WellFormedPayloads == {"object", "null"}

\* C7: the probe reports true exactly when the request got an answer, the
\* answer's status is a success status and its body parses as a well-formed
\* JSON payload.
C7_ProbeTrueIff ==
    obs.probe # NoResponse =>
        (task.status = <<"OK">>
            <=> /\ obs.probe.kind = "resp"
                /\ obs.probe.code \in SuccessCodes
                /\ obs.probe.body \in WellFormedPayloads)

\* ------------------------------------------------------------------------
\* runServerCheckLoop
\* ------------------------------------------------------------------------
\* members the homeserver can report
Users == { <<"@", "u", ":", "a">>,
           <<"@", "v", ":", "a">>,
           <<"@", "w", ":", "b">> }

\* client.JoinedMembers: an error, or the joined members (never none: the
\* monitoring account itself is one)
MemberResponses ==
    {[kind |-> "err", joined |-> {}]}
    \cup {[kind |-> "ok", joined |-> m] : m \in (SUBSET Users) \ {{}}}

\* client.JoinedMembers for rooms that have a single member
SoleMemberResponses ==
    {resp \in MemberResponses : Cardinality(resp.joined) <= 1}

\* the state events getRoomDetails and FetchAvatarURL read: all set, or none
DetailResponses ==
    {[name |-> <<"T">>, alias |-> <<"#", "r">>, avatar |-> <<"mxc">>],
     [name |-> <<>>, alias |-> <<>>, avatar |-> <<>>]}

NoDuplicates(l) == \A i, j \in 1..Len(l) : l[i] = l[j] => i = j

\* every list client.JoinedRooms can return for an account that is in one
\* room and in the log room, and those naming no room twice
JoinedLists == SeqsUpTo({ <<"!", "p">>, LogRoom }, MaxJoined)

DistinctJoinedLists == {l \in JoinedLists : NoDuplicates(l)}

\* extractDomain
extractDomain(userID) ==
    LET parts == Split(userID, ":")
    IN  IF Len(parts) > 1 THEN parts[2] ELSE <<>>

\* getRoomDetails: (alias, title) with the fallbacks for missing events
getRoomDetails(roomID, resp) ==
    [alias |-> IF resp.alias = <<>> THEN roomID ELSE resp.alias,
     title |-> IF resp.name = <<>> THEN <<"(unknown title)">> ELSE resp.name]

\* FetchAvatarURL for a room: the media URL, or a placeholder with the
\* second character of the room id
FetchAvatarURL(roomID, resp) ==
    IF resp.avatar # <<>>
    THEN <<"/_matrix/media/v3/download/">> \o resp.avatar
    ELSE <<"https://dummyimage.com/24x24/FF4136/FFFFFF.png&text=", roomID[2]>>

\* the name getOrCreateRoomNode gives the node: "title - #alias"
FormattedName(details) ==
    LET roomAlias == IF details.alias # <<>> /\ details.alias[1] = "#"
                     THEN details.alias
                     ELSE <<"#">> \o details.alias
    IN  details.title \o <<" - ">> \o roomAlias

NoTasks == [k \in {} |-> 0]

\* frame of a room goroutine
RoomFrame(roomID) ==
    [pc |-> "start", roomID |-> roomID, members |-> {}, roomNode |-> NullNode,
     name |-> <<>>, avatar |-> <<>>, uniqueServers |-> {}, userCounts |-> NoTasks,
     server |-> <<>>, children |-> <<>>]

\* frame of a server goroutine
ServerFrame(serverNode, userCount) ==
    [pc |-> "check", serverNode |-> serverNode, userCount |-> userCount,
     err |-> NoError, online |-> FALSE, status |-> <<>>]

\* a goroutine that has returned: its locals are gone (userCounts stays as
\* the record of the servers it swept)
RoomDone(roomID, userCounts) ==
    [RoomFrame(roomID) EXCEPT !.pc = "done", !.userCounts = userCounts]

ServerDone(serverNode) == [ServerFrame(serverNode, 0) EXCEPT !.pc = "done"]

Init ==
    /\ treeData = [r \in RoomIDs |-> NullNode]
    /\ nodes = <<>>
    /\ task = Frame("idle", <<>>, NullNode)
    /\ calls = <<>>
    /\ obs = NoCalls
    /\ loop = [pc |-> "fetch", cycle |-> 1, err |-> FALSE, overran |-> FALSE,
                logMutex |-> NoHolder, logged |-> {}]
    /\ joinedRooms = <<>>
    /\ gtask = <<>>
    /\ stask = NoTasks
    /\ fetches = [r \in RoomIDs |-> 0]
    /\ snap = NoSnapshot

\* a failed client.JoinedRooms that goes on to the next round at once
JoinedRoomsFailedNoSleep(cycles) ==
    /\ loop.pc = "fetch"
    /\ loop.cycle <= cycles
    /\ loop' = [loop EXCEPT !.cycle = @ + 1, !.err = TRUE]
    /\ joinedRooms' = <<>>
    /\ gtask' = <<>>
    /\ stask' = NoTasks
    /\ UNCHANGED <<treeData, nodes, fetches, taskVars, snap>>

\* client.JoinedRooms failed: sleep and start over
JoinedRoomsFailed(cycles) ==
    /\ loop.pc = "fetch"
    /\ loop.cycle <= cycles
    /\ loop' = [loop EXCEPT !.pc = "sleep", !.err = TRUE]
    /\ joinedRooms' = <<>>
    /\ gtask' = <<>>
    /\ stask' = NoTasks
    /\ UNCHANGED <<treeData, nodes, fetches, taskVars, snap>>

\* client.JoinedRooms answered with one of lists: a goroutine for each entry
JoinedRooms(lists, cycles) ==
    /\ loop.pc = "fetch"
    /\ loop.cycle <= cycles
    /\ \E l \in lists :
          /\ joinedRooms' = l
          /\ gtask' = [i \in 1..Len(l) |-> RoomFrame(l[i])]
    /\ stask' = NoTasks
    /\ loop' = [loop EXCEPT !.pc = "wait", !.err = FALSE]
    /\ UNCHANGED <<treeData, nodes, fetches, taskVars, snap>>

\* a room goroutine that drops the room's entry when the members cannot
\* be fetched
RoomJoinedMembersForget(i, responses) ==
    /\ gtask[i].pc = "start"
    /\ \E resp \in responses :
          IF resp.kind = "err" \/ gtask[i].roomID = LogRoom
          THEN /\ gtask' = [gtask EXCEPT
                               ![i] = RoomDone(gtask[i].roomID, NoTasks)]
               /\ treeData' = [treeData EXCEPT ![gtask[i].roomID] = NullNode]
          ELSE /\ gtask' = [gtask EXCEPT ![i].pc = "load",
                                         ![i].members = resp.joined]
               /\ UNCHANGED treeData
    /\ UNCHANGED <<nodes, loop, joinedRooms, stask, fetches, taskVars, snap>>

\* a room goroutine that stops for good when the members cannot be fetched,
\* without its deferred roomWg.Done()
RoomJoinedMembersNoDone(i, responses) ==
    /\ gtask[i].pc = "start"
    /\ IF gtask[i].roomID = LogRoom
       THEN gtask' = [gtask EXCEPT ![i] = RoomDone(gtask[i].roomID, NoTasks)]
       ELSE \E resp \in responses :
               IF resp.kind = "err"
               THEN gtask' = [gtask EXCEPT ![i].pc = "failed"]
               ELSE gtask' = [gtask EXCEPT ![i].pc = "load",
                                           ![i].members = resp.joined]
    /\ UNCHANGED <<treeData, nodes, loop, joinedRooms, stask, fetches, taskVars, snap>>

\* room goroutine: skip the log room, else client.JoinedMembers
RoomJoinedMembers(i, responses) ==
    /\ gtask[i].pc = "start"
    /\ IF gtask[i].roomID = LogRoom
       THEN gtask' = [gtask EXCEPT ![i] = RoomDone(gtask[i].roomID, NoTasks)]
       ELSE \E resp \in responses :
               IF resp.kind = "err"
               THEN gtask' = [gtask EXCEPT
                                 ![i] = RoomDone(gtask[i].roomID, NoTasks)]
               ELSE gtask' = [gtask EXCEPT ![i].pc = "load",
                                           ![i].members = resp.joined]
    /\ UNCHANGED <<treeData, nodes, loop, joinedRooms, stask, fetches, taskVars, snap>>

\* the server set the goroutine ranges over once it has its room node
UniqueServers(members) == {extractDomain(u) : u \in members}

\* the number of members each of these servers has in the room
UserCounts(members) ==
    [server \in UniqueServers(members) |->
        Cardinality({u \in members : extractDomain(u) = server})]

\* getOrCreateRoomNode: treeData.Load(roomID)
RoomLoad(i) ==
    /\ gtask[i].pc = "load"
    /\ IF treeData[gtask[i].roomID] # NullNode
       THEN gtask' = [gtask EXCEPT
                         ![i].pc = "range",
                         ![i].roomNode = treeData[gtask[i].roomID],
                         ![i].uniqueServers = UniqueServers(gtask[i].members),
                         ![i].userCounts = UserCounts(gtask[i].members)]
       ELSE gtask' = [gtask EXCEPT ![i].pc = "details"]
    /\ UNCHANGED <<treeData, nodes, loop, joinedRooms, stask, fetches, taskVars, snap>>

\* getOrCreateRoomNode: getRoomDetails and FetchAvatarURL
RoomDetails(i) ==
    /\ gtask[i].pc = "details"
    /\ \E resp \in DetailResponses :
          gtask' = [gtask EXCEPT
                       ![i].pc = "store",
                       ![i].name = FormattedName(
                                       getRoomDetails(gtask[i].roomID, resp)),
                       ![i].avatar = FetchAvatarURL(gtask[i].roomID, resp)]
    /\ fetches' = [fetches EXCEPT ![gtask[i].roomID] = @ + 1]
    /\ UNCHANGED <<treeData, nodes, loop, joinedRooms, stask, taskVars, snap>>

\* getOrCreateRoomNode: the new node and treeData.Store(roomID, roomNode)
RoomStore(i) ==
    /\ gtask[i].pc = "store"
    /\ nodes' = Append(nodes, NewRoomNode(gtask[i].name, gtask[i].avatar))
    /\ treeData' = [treeData EXCEPT ![gtask[i].roomID] = Len(nodes) + 1]
    /\ gtask' = [gtask EXCEPT
                    ![i].pc = "range",
                    ![i].roomNode = Len(nodes) + 1,
                    ![i].name = <<>>,
                    ![i].avatar = <<>>,
                    ![i].uniqueServers = UniqueServers(gtask[i].members),
                    ![i].userCounts = UserCounts(gtask[i].members)]
    /\ UNCHANGED <<loop, joinedRooms, stask, fetches, taskVars, snap>>

\* a server goroutine that is started without the count of its members
SpawnNoCount(i, server, serverNode) ==
    stask' = (<<i, server>> :> ServerFrame(serverNode, 0)) @@ stask

\* go func(server, serverNode): the goroutine of (room goroutine i, server)
Spawn(i, server, serverNode) ==
    stask' = (<<i, server>> :>
                 ServerFrame(serverNode, gtask[i].userCounts[server])) @@ stask

\* next server of the range; getOrCreateServerNode reads roomNode.Children
\* and looks for it; a child found is handed to a new server goroutine
RoomRangeFind(i) ==
    /\ gtask[i].pc = "range"
    /\ \E server \in gtask[i].uniqueServers :
          LET children == nodes[gtask[i].roomNode].Children
              found == FindChild(nodes, children, server)
          IN  IF found # NullNode
              THEN /\ gtask' = [gtask EXCEPT ![i].uniqueServers = @ \ {server}]
                   /\ Spawn(i, server, found)
              ELSE /\ gtask' = [gtask EXCEPT ![i].pc = "append",
                                             ![i].server = server]
                   /\ UNCHANGED stask
    /\ UNCHANGED <<treeData, nodes, loop, joinedRooms, fetches, taskVars, snap>>

\* getOrCreateServerNode: no child found; append(roomNode.Children, ...)
\* reads the child list once more
RoomRangeAppend(i) ==
    /\ gtask[i].pc = "append"
    /\ gtask' = [gtask EXCEPT ![i].pc = "assign",
                              ![i].children = nodes[gtask[i].roomNode].Children]
    /\ UNCHANGED <<treeData, nodes, loop, joinedRooms, stask, fetches, taskVars,
                   snap>>

\* getOrCreateServerNode: roomNode.Children = the list that was read with
\* the new node at its end; the node is handed to a new server goroutine
RoomRangeAssign(i) ==
    /\ gtask[i].pc = "assign"
    /\ nodes' = AppendChild(nodes, gtask[i].roomNode, gtask[i].children,
                            gtask[i].server)
    /\ Spawn(i, gtask[i].server, Len(nodes) + 1)
    /\ gtask' = [gtask EXCEPT ![i].pc = "range",
                              ![i].uniqueServers = @ \ {gtask[i].server},
                              ![i].server = <<>>,
                              ![i].children = <<>>]
    /\ UNCHANGED <<treeData, loop, joinedRooms, fetches, taskVars, snap>>

ServerTasksOf(i) == {k \in DOMAIN stask : k[1] = i}

\* a room goroutine that returns without serverWg.Wait()
RoomWaitNoServerWait(i) ==
    /\ gtask[i].pc = "range"
    /\ gtask[i].uniqueServers = {}
    /\ gtask' = [gtask EXCEPT
                    ![i] = RoomDone(gtask[i].roomID, gtask[i].userCounts)]
    /\ UNCHANGED <<treeData, nodes, loop, joinedRooms, stask, fetches, taskVars,
                   snap>>

\* serverWg.Wait() and the end of the room goroutine
RoomWait(i) ==
    /\ gtask[i].pc = "range"
    /\ gtask[i].uniqueServers = {}
    /\ \A k \in ServerTasksOf(i) : stask[k].pc = "done"
    /\ gtask' = [gtask EXCEPT
                    ![i] = RoomDone(gtask[i].roomID, gtask[i].userCounts)]
    /\ UNCHANGED <<treeData, nodes, loop, joinedRooms, stask, fetches, taskVars,
                   snap>>

\* errors resolveMatrixServer can return for server: none for an IP literal
ResolveErrors(server) ==
    IF ParseIP(server) THEN {NoError} ELSE {NoError, ResolveError(server)}

\* server goroutine: status := checkServer(ctx, client, server), with the
\* calls inside it reduced to what they return (SpecTask follows them)
ServerCheck(k) ==
    /\ stask[k].pc = "check"
    /\ \E err \in ResolveErrors(k[2]) :
       \E online \in IF err = NoError THEN BOOLEAN ELSE {FALSE} :
          stask' = [stask EXCEPT ![k].pc = "update",
                                 ![k].err = err,
                                 ![k].online = online,
                                 ![k].status = checkServer(err, online)]
    /\ UNCHANGED <<treeData, nodes, loop, joinedRooms, gtask, fetches, taskVars, snap>>

\* status and user count of a server node written together
UpdateStatus(heap, serverNode, status, userCount) ==
    [heap EXCEPT ![serverNode].Status = status,
                 ![serverNode].UserCount = userCount]

\* server goroutine: serverNode.Status = status, and its end
ServerUpdateStatus(k) ==
    /\ stask[k].pc = "update"
    /\ nodes' = UpdateStatus(nodes, stask[k].serverNode, stask[k].status,
                             stask[k].userCount)
    /\ stask' = [stask EXCEPT ![k] = ServerDone(stask[k].serverNode)]
    /\ UNCHANGED <<treeData, loop, joinedRooms, gtask, fetches, taskVars, snap>>

\* a loop that goes to sleep without roomWg.Wait()
LoopWaitNoJoin ==
    /\ loop.pc = "wait"
    /\ \E overran \in (IF gtask = <<>> THEN {FALSE} ELSE BOOLEAN) :
          loop' = [loop EXCEPT !.pc = "sleep", !.overran = overran]
    /\ UNCHANGED <<treeData, nodes, joinedRooms, gtask, stask, fetches, taskVars,
                   snap>>

\* a loop that sleeps only for what is left of the interval
LoopWaitSleepRest ==
    /\ loop.pc = "wait"
    /\ \A i \in 1..Len(gtask) : gtask[i].pc = "done"
    /\ \E overran \in (IF gtask = <<>> THEN {FALSE} ELSE BOOLEAN) :
          loop' = IF overran
                  THEN [loop EXCEPT !.pc = "fetch", !.cycle = @ + 1]
                  ELSE [loop EXCEPT !.pc = "sleep"]
    /\ UNCHANGED <<treeData, nodes, joinedRooms, gtask, stask, fetches, taskVars,
                   snap>>

\* roomWg.Wait(); overran: the goroutines of the cycle have taken longer
\* than the interval
LoopWait ==
    /\ loop.pc = "wait"
    /\ \A i \in 1..Len(gtask) : gtask[i].pc = "done"
    /\ \E overran \in (IF gtask = <<>> THEN {FALSE} ELSE BOOLEAN) :
          loop' = [loop EXCEPT !.pc = "sleep", !.overran = overran]
    /\ UNCHANGED <<treeData, nodes, joinedRooms, gtask, stask, fetches, taskVars, snap>>

\* time.Sleep(interval) and the next round of the for-loop
LoopSleep ==
    /\ loop.pc = "sleep"
    /\ loop' = [pc |-> "fetch", cycle |-> loop.cycle + 1, err |-> FALSE,
                overran |-> FALSE, logMutex |-> NoHolder, logged |-> {}]
    /\ UNCHANGED <<treeData, nodes, joinedRooms, gtask, stask, fetches, taskVars, snap>>

RoomNext(i, responses) ==
    \/ RoomJoinedMembers(i, responses)
    \/ RoomLoad(i)
    \/ RoomDetails(i)
    \/ RoomStore(i)
    \/ RoomRangeFind(i)
    \/ RoomRangeAppend(i)
    \/ RoomRangeAssign(i)
    \/ RoomWait(i)

ServerNext(k) ==
    \/ ServerCheck(k)
    \/ ServerUpdateStatus(k)

SweepNext(responses) ==
    \/ LoopWait
    \/ LoopSleep
    \/ \E i \in 1..Len(gtask) : RoomNext(i, responses)
    \/ \E k \in DOMAIN stask : ServerNext(k)

\* the homeserver names every joined room once
Next ==
    \/ JoinedRoomsFailed(MaxCycles)
    \/ JoinedRooms(DistinctJoinedLists, MaxCycles)
    \/ SweepNext(MemberResponses)

Spec == Init /\ [][Next]_vars

\* the homeserver's list may name a room more than once
NextAnyList ==
    \/ JoinedRoomsFailed(MaxRacingCycles)
    \/ JoinedRooms(JoinedLists, MaxRacingCycles)
    \/ SweepNext(SoleMemberResponses)

SpecAnyList == Init /\ [][NextAnyList]_vars

\* under SpecTask: what the goroutine followed call by call ends up writing
\* is among the statuses ServerCheck chooses from
CheckServerSummary ==
    task.pc \in {"update", "done"} =>
        \E err \in ResolveErrors(task.server), online \in BOOLEAN :
            task.status = checkServer(err, online)

\* ------------------------------------------------------------------------
\* properties of the tree under the sweep
\* ------------------------------------------------------------------------
Range(q) == {q[i] : i \in 1..Len(q)}

IsPrefix(a, b) == Len(a) <= Len(b) /\ a = SubSeq(b, 1, Len(a))

\* room nodes treeData points to, and the server nodes below them
RoomNodes == {treeData[r] : r \in RoomIDs} \ {NullNode}

ServerNodes == UNION {Range(nodes[n].Children) : n \in RoomNodes}

\* C8: a server goroutine writes "OK" exactly when resolution and probe
\* succeeded, "Failed (Unreachable)" exactly when resolution succeeded and the
\* probe failed, "Failed (Delegation Failed: <error>)" exactly when resolution
\* failed; a server node's status is always "unknown" or one of these.
C8_StatusValues ==
    /\ \A k \in DOMAIN stask :
          stask[k].pc = "update" =>
              LET t == stask[k]
                  failed == <<"Failed (Delegation Failed: ",
                              "could not resolve Matrix server for ">>
                            \o k[2] \o <<")">>
              IN  /\ t.status \in {<<"OK">>, <<"Failed (Unreachable)">>, failed}
                  /\ t.status = <<"OK">> <=> (t.err = NoError /\ t.online)
                  /\ t.status = <<"Failed (Unreachable)">>
                        <=> (t.err = NoError /\ ~t.online)
                  /\ t.status = failed <=> t.err # NoError
    /\ \A n \in ServerNodes :
          nodes[n].Status \in
              {<<"unknown">>, <<"OK">>, <<"Failed (Unreachable)">>,
               <<"Failed (Delegation Failed: ",
                 "could not resolve Matrix server for ">>
               \o nodes[n].Name \o <<")">>}

\* one node of a room failed delegation, its sibling is reachable, and a
\* goroutine is about to overwrite a status of the previous cycle
C8_Witness ==
    /\ loop.cycle = 2
    /\ \E n, m \in ServerNodes :
          /\ nodes[n].Status = <<"OK">>
          /\ nodes[m].Status = <<"Failed (Delegation Failed: ",
                                 "could not resolve Matrix server for ", "b", ")">>
    /\ \E k \in DOMAIN stask :
          /\ stask[k].pc = "update"
          /\ stask[k].status = <<"Failed (Unreachable)">>
          /\ nodes[stask[k].serverNode].Status = <<"OK">>

\* the children of room node n that carry the name server
ChildrenNamed(n, server) ==
    {c \in Range(nodes[n].Children) : nodes[c].Name = server}

\* the node a server goroutine got from getOrCreateServerNode is the one
\* child of its room with the server's name
C9_Returned ==
    \A k \in DOMAIN stask :
        LET roomNode == treeData[joinedRooms[k[1]]]
        IN  /\ roomNode # NullNode
            /\ ChildrenNamed(roomNode, k[2]) = {stask[k].serverNode}

\* a step keeps every child list as a prefix of what it becomes, adds at most
\* one child, named unlike the others and with status "unknown", and leaves
\* the nodes alone when the server handed to a new goroutine had a child
C9_Step ==
    /\ \A n \in 1..Len(nodes) :
          /\ IsPrefix(nodes[n].Children, nodes'[n].Children)
          /\ Len(nodes'[n].Children) <= Len(nodes[n].Children) + 1
          /\ Len(nodes'[n].Children) = Len(nodes[n].Children) + 1 =>
                LET c == nodes'[n].Children[Len(nodes'[n].Children)]
                IN  /\ c \notin Range(nodes[n].Children)
                    /\ c > Len(nodes)
                    /\ nodes'[c].Status = <<"unknown">>
                    /\ \A d \in Range(nodes[n].Children) :
                          nodes[d].Name # nodes'[c].Name
    /\ \A k \in (DOMAIN stask') \ (DOMAIN stask) :
          LET roomNode == treeData[joinedRooms[k[1]]]
          IN  ChildrenNamed(roomNode, k[2]) # {} =>
                  /\ nodes' = nodes
                  /\ stask'[k].serverNode \in ChildrenNamed(roomNode, k[2])

\* C9: getOrCreateServerNode returns the same node whenever it is called for
\* the same room and server and then leaves the child list unchanged; for
\* different servers it returns different nodes, appended in the order in
\* which the servers were first seen, and that order never changes.
C9_GetOrCreateServer == [](C9_Returned) /\ [][C9_Step]_vars

\* second cycle: "a" was seen first and "b" second, both are looked up again,
\* and the goroutines got the two nodes of the first cycle
C9_Witness ==
    /\ loop.cycle = 2
    /\ Len(nodes) = 3
    /\ nodes[1].Children = <<2, 3>>
    /\ nodes[2].Name = <<"a">>
    /\ nodes[3].Name = <<"b">>
    /\ DOMAIN stask = {<<1, <<"a">>>>, <<1, <<"b">>>>}
    /\ stask[<<1, <<"a">>>>].serverNode = 2
    /\ stask[<<1, <<"b">>>>].serverNode = 3

\* C10: room goroutines that call getOrCreateRoomNode for the same room id,
\* not yet in the tree, fetch the room details once in all and get the same
\* node.
C10_SingleDetailFetch ==
    /\ \A r \in RoomIDs : fetches[r] <= 1
    /\ \A i, j \in 1..Len(gtask) :
          (/\ gtask[i].roomID = gtask[j].roomID
           /\ gtask[i].roomNode # NullNode
           /\ gtask[j].roomNode # NullNode)
              => gtask[i].roomNode = gtask[j].roomNode

\* ------------------------------------------------------------------------
\* ServerTreeHandler: GET /tree while the sweep runs
\* ------------------------------------------------------------------------
\* cycles of the sweep a request for /tree is followed through
MaxSnapshotCycles == 1

\* the orders in which treeData.Range can visit the entries S
Orders(S) == {q \in SeqsUpTo(S, Cardinality(S)) : Range(q) = S}

\* what json.Encoder writes for a TreeNode: the tags of the struct say
\* omitempty for every field but name
JsonObject(name, avatar, status, userCount, children) ==
    LET all == [name |-> name, avatar |-> avatar, status |-> status,
                user_count |-> userCount, children |-> children]
        keys == {"name"}
                \cup (IF avatar # <<>> THEN {"avatar"} ELSE {})
                \cup (IF status # <<>> THEN {"status"} ELSE {})
                \cup (IF userCount # 0 THEN {"user_count"} ELSE {})
                \cup (IF children # <<>> THEN {"children"} ELSE {})
    IN  [k \in keys |-> all[k]]

\* the value of the tree below the room nodes of root, taken in one instant
Leaf(heap, n) ==
    JsonObject(heap[n].Name, heap[n].Avatar, heap[n].Status, heap[n].UserCount,
               <<>>)

\* the objects of the children a server node has
Leaves(heap, node) ==
    [j \in 1..Len(node.Children) |-> Leaf(heap, node.Children[j])]

DeepCopy(heap, root) ==
    [i \in 1..Len(root) |->
        JsonObject(heap[root[i]].Name, heap[root[i]].Avatar,
                   heap[root[i]].Status, heap[root[i]].UserCount,
                   [j \in 1..Len(heap[root[i]].Children) |->
                       Leaf(heap, heap[root[i]].Children[j])])]

\* treeData.Range: root.Children gets the pointers treeData holds
SnapshotRange ==
    /\ snap.pc = "idle"
    /\ \E root \in Orders(RoomNodes) :
          snap' = [NoSnapshot EXCEPT
                      !.pc = IF root = <<>> THEN "done" ELSE "room",
                      !.root = root,
                      !.copy = DeepCopy(nodes, root),
                      !.room = 1]
    /\ UNCHANGED <<treeData, nodes, loop, joinedRooms, gtask, stask, fetches,
                   taskVars>>

\* the encoder is through with the children of the room it is at
SnapshotRoomEnd(frame) ==
    LET object == JsonObject(frame.fields.Name, frame.fields.Avatar,
                             frame.fields.Status, frame.fields.UserCount,
                             frame.kids)
    IN  [frame EXCEPT
            !.pc = IF frame.room = Len(frame.root) THEN "done" ELSE "room",
            !.out = Append(frame.out, object),
            !.room = frame.room + 1,
            !.fields = <<>>,
            !.children = <<>>,
            !.child = 0,
            !.kids = <<>>]

\* Encode(root) at a room node: its fields and its Children are read
SnapshotRoom ==
    /\ snap.pc = "room"
    /\ LET node == nodes[snap.root[snap.room]]
           frame == [snap EXCEPT !.fields = [node EXCEPT !.Children = <<>>],
                                 !.children = node.Children,
                                 !.child = 1,
                                 !.held = {}]
       IN  snap' = IF node.Children = <<>>
                   THEN SnapshotRoomEnd(frame)
                   ELSE [frame EXCEPT !.pc = "status"]
    /\ UNCHANGED <<treeData, nodes, loop, joinedRooms, gtask, stask, fetches,
                   taskVars>>

\* the children an object has ("children" is left out when there are none)
Kids(object) ==
    IF "children" \in DOMAIN object THEN object.children ELSE <<>>

\* the status an object has ("status" is left out when it is empty)
StatusOf(object) ==
    IF "status" \in DOMAIN object THEN object.status ELSE <<>>

\* what an unsynchronized read of the Status of child number child of the
\* room the encoder is at can return: the last write, or the value the
\* field had when treeData.Range, the handler's last synchronization with
\* the sweep, ran (child lists only grow at their end, so the child has the
\* same number in copy)
StatusReads(frame, heap) ==
    {heap[frame.children[frame.child]].Status}
    \cup (IF frame.child <= Len(Kids(frame.copy[frame.room]))
          THEN {StatusOf(Kids(frame.copy[frame.room])[frame.child])}
          ELSE {})

\* Encode(root) at a server node: Name, Avatar and Status are read, with no
\* synchronization with the goroutine that writes Status; held notes what
\* Status and UserCount are together in this instant
SnapshotChildStatus ==
    /\ snap.pc = "status"
    /\ LET node == nodes[snap.children[snap.child]]
       IN  \E status \in StatusReads(snap, nodes) :
              snap' = [snap EXCEPT !.pc = "count",
                                   !.status = status,
                                   !.held = {<<node.Status, node.UserCount>>}]
    /\ UNCHANGED <<treeData, nodes, loop, joinedRooms, gtask, stask, fetches,
                   taskVars>>

\* Encode(root) at a server node: UserCount is read and the object written
SnapshotChildCount ==
    /\ snap.pc = "count"
    /\ LET node == nodes[snap.children[snap.child]]
           frame == [snap EXCEPT
                        !.kids = Append(@, JsonObject(node.Name, node.Avatar,
                                                      snap.status,
                                                      node.UserCount,
                                                      Leaves(nodes, node))),
                        !.held = @ \cup {<<node.Status, node.UserCount>>},
                        !.status = <<>>]
       IN  snap' = IF snap.child = Len(snap.children)
                   THEN SnapshotRoomEnd(frame)
                   ELSE [frame EXCEPT !.pc = "status", !.child = @ + 1]
    /\ UNCHANGED <<treeData, nodes, loop, joinedRooms, gtask, stask, fetches,
                   taskVars>>

\* the response is written and the handler returns
SnapshotReturn ==
    /\ snap.pc = "done"
    /\ snap' = NoSnapshot
    /\ UNCHANGED <<treeData, nodes, loop, joinedRooms, gtask, stask, fetches,
                   taskVars>>

ServerTreeHandler ==
    \/ SnapshotRange
    \/ SnapshotRoom
    \/ SnapshotChildStatus
    \/ SnapshotChildCount
    \/ SnapshotReturn

\* the sweep with requests for /tree coming in
NextSnapshot ==
    \/ JoinedRoomsFailed(MaxSnapshotCycles)
    \/ JoinedRooms(DistinctJoinedLists, MaxSnapshotCycles)
    \/ SweepNext(MemberResponses)
    \/ ServerTreeHandler

SpecSnapshot == Init /\ [][NextSnapshot]_vars

\* ------------------------------------------------------------------------
\* properties of what GET /tree reports
\* ------------------------------------------------------------------------
\* the server object the encoder wrote last
LastServerObject ==
    IF snap.kids # <<>>
    THEN snap.kids[Len(snap.kids)]
    ELSE LET children == snap.out[Len(snap.out)].children
         IN  children[Len(children)]

\* status and user_count as an object reports them (user_count is left out
\* of the object when it is 0)
Reported(object) ==
    <<StatusOf(object),
      IF "user_count" \in DOMAIN object THEN object.user_count ELSE 0>>

C12_SnapshotIsDeepCopy ==
    snap.pc \in {"room", "status", "count", "done"} =>
        DeepCopy(nodes, snap.root) = snap.copy

\* C13: in no reachable state is ServerTreeHandler traversing the Children
\* of a room node while getOrCreateServerNode is appending to the Children of
\* that node.
C13_NoTraversalDuringAppend ==
    ~ \E i \in 1..Len(gtask) :
          /\ gtask[i].pc = "assign"
          /\ snap.pc \in {"status", "count"}
          /\ snap.root[snap.room] = gtask[i].roomNode

\* ------------------------------------------------------------------------
\* a cycle over three rooms, two of them recorded by an earlier cycle
\* ------------------------------------------------------------------------
\* cycles followed over the three rooms
MaxRoomsCycles == 1

ThreeRooms == << <<"!", "p">>, <<"!", "q">>, <<"!", "r">> >>

\* the room node an earlier cycle stored for roomID when the room had no
\* name, alias or avatar event, with its children
RecordedRoom(roomID, children) ==
    LET resp == [name |-> <<>>, alias |-> <<>>, avatar |-> <<>>]
    IN  [NewRoomNode(FormattedName(getRoomDetails(roomID, resp)),
                     FetchAvatarURL(roomID, resp))
            EXCEPT !.Children = children]

\* the server node an earlier cycle left for a server with one member
RecordedServer(server, status) ==
    UpdateStatus(<<NewServerNode(server)>>, 1, status, 1)[1]

\* the tree after a cycle over !p and !q, each with its one member on "a"
InitRooms ==
    /\ \E sp, sq \in {StatusOnline, StatusUnreachable} :
          nodes = << RecordedRoom(ThreeRooms[1], <<2>>),
                     RecordedServer(<<"a">>, sp),
                     RecordedRoom(ThreeRooms[2], <<4>>),
                     RecordedServer(<<"a">>, sq) >>
    /\ treeData = [r \in RoomIDs |->
                      IF r = ThreeRooms[1] THEN 1
                      ELSE IF r = ThreeRooms[2] THEN 3 ELSE NullNode]
    /\ task = Frame("idle", <<>>, NullNode)
    /\ calls = <<>>
    /\ obs = NoCalls
    /\ loop = [pc |-> "fetch", cycle |-> 1, err |-> FALSE, overran |-> FALSE,
                logMutex |-> NoHolder, logged |-> {}]
    /\ joinedRooms = <<>>
    /\ gtask = <<>>
    /\ stask = NoTasks
    /\ fetches = [r \in RoomIDs |-> IF r = ThreeRooms[3] THEN 0 ELSE 1]
    /\ snap = NoSnapshot

NextRooms ==
    \/ JoinedRoomsFailed(MaxRoomsCycles)
    \/ JoinedRooms({ThreeRooms}, MaxRoomsCycles)
    \/ SweepNext(SoleMemberResponses)

SpecRooms == InitRooms /\ [][NextRooms]_vars

\* the room goroutines of the running cycle whose members could not be
\* fetched, and those that swept their room
FailedRooms ==
    {i \in 1..Len(gtask) : /\ gtask[i].pc = "done"
                           /\ gtask[i].roomID # LogRoom
                           /\ gtask[i].userCounts = NoTasks}

SweptRooms ==
    {i \in 1..Len(gtask) : gtask[i].pc = "done" /\ gtask[i].userCounts # NoTasks}

\* the value of what treeData holds for room id r
SubTree(map, heap, r) ==
    IF map[r] = NullNode
    THEN <<>>
    ELSE <<heap[map[r]],
           [j \in 1..Len(heap[map[r]].Children) |->
               heap[heap[map[r]].Children[j]]]>>

\* when the cycle is over, every room whose members were fetched has had a
\* server goroutine run to its end for each of its servers, and the status
\* that goroutine wrote stands in the room's node for the server
C14_OthersComplete ==
    loop.pc = "sleep" =>
        \A i \in SweptRooms :
            \A server \in DOMAIN gtask[i].userCounts :
                /\ <<i, server>> \in DOMAIN stask
                /\ stask[<<i, server>>].pc = "done"
                /\ \E c \in ChildrenNamed(treeData[gtask[i].roomID], server) :
                      nodes[c].Status # StatusUnknown

\* a step changes what the tree holds for a room only on behalf of a
\* goroutine of that room that has fetched the members and not yet returned
C14_Step ==
    \A r \in RoomIDs :
        SubTree(treeData', nodes', r) # SubTree(treeData, nodes, r) =>
            \E i \in 1..Len(gtask) : /\ gtask[i].roomID = r
                                      /\ gtask[i].pc \notin {"start", "done"}

\* C14: within one cycle, a failure to fetch the members of room A does not
\* keep the goroutines of the other rooms from completing all their server
\* goroutines in that cycle, and it leaves the node recorded for A (name,
\* children, every child's status) as it was.
C14_FetchFailureIsolated == [](C14_OthersComplete) /\ [][C14_Step]_vars

\* the members of !p could not be fetched; !q and !r were swept and their
\* server goroutines have written; the node of !p is as the earlier cycle
\* left it
C14_Witness ==
    /\ loop.pc = "sleep"
    /\ FailedRooms = {1}
    /\ SweptRooms = {2, 3}
    /\ DOMAIN stask = {<<2, <<"b">>>>, <<3, <<"a">>>>}
    /\ nodes[treeData[ThreeRooms[1]]].Children = <<2>>
    /\ nodes[2].Status = StatusOnline
    /\ \A k \in DOMAIN stask : nodes[stask[k].serverNode].Status # StatusUnknown

\* ------------------------------------------------------------------------
\* properties of the for-loop of runServerCheckLoop
\* ------------------------------------------------------------------------
\* a failed client.JoinedRooms leads to the sleep of the same round with no
\* goroutine started and the tree as it was; the step after it is the end of
\* the sleep, which starts the next round, again with the tree as it was
C15_Step ==
    /\ (loop.pc = "fetch" /\ loop'.err) =>
           /\ loop'.pc = "sleep"
           /\ loop'.cycle = loop.cycle
           /\ gtask' = <<>>
           /\ stask' = NoTasks
           /\ treeData' = treeData
           /\ nodes' = nodes
    /\ loop.err =>
           /\ loop.pc = "sleep"
           /\ loop'.pc = "fetch"
           /\ loop'.cycle = loop.cycle + 1
           /\ gtask' = <<>>
           /\ stask' = NoTasks
           /\ treeData' = treeData
           /\ nodes' = nodes

\* C15: when client.JoinedRooms fails, the whole cycle is skipped: no room
\* or server goroutine is started, the tree is left unchanged, and the loop
\* sleeps one interval and then starts the next cycle.
C15_ListFetchFailure == [][C15_Step]_vars

\* the second cycle's list could not be fetched: the loop sleeps with the
\* tree of the first cycle (a room with both servers checked) and no goroutine
C15_Witness ==
    /\ loop.err
    /\ loop.pc = "sleep"
    /\ loop.cycle = 2
    /\ gtask = <<>>
    /\ Cardinality(ServerNodes) = 2
    /\ \A n \in ServerNodes : nodes[n].Status # StatusUnknown

\* C16: cycles never overlap: the loop fetches the list of the next cycle,
\* and so starts its goroutines, only when every room and server goroutine
\* of the cycle before has returned.
C16_NoOverlap ==
    loop.pc \in {"sleep", "fetch"} =>
        /\ \A i \in 1..Len(gtask) : gtask[i].pc = "done"
        /\ \A k \in DOMAIN stask : stask[k].pc = "done"

\* the goroutines of the first cycle have all returned (one room, two
\* servers) and the loop is about to fetch the list of the second
C16_Witness ==
    /\ loop.pc = "fetch"
    /\ loop.cycle = 2
    /\ Len(gtask) = 2
    /\ Cardinality(DOMAIN stask) = 2

\* C17: a cycle that ran longer than the configured interval starts its
\* next cycle immediately after it finishes, with no further interval sleep
\* between the end of that cycle and the start of the next.
C17_NoSleepAfterOverrun == loop.overran => loop.pc # "sleep"

\* the end of a cycle leads to the sleep of the same round, however long the
\* cycle took, and a round starts only from the end of a sleep
C17_Step ==
    /\ (loop.pc = "wait" /\ loop' # loop) =>
           (loop'.pc = "sleep" /\ loop'.cycle = loop.cycle)
    /\ (loop'.pc = "fetch" /\ loop.pc # "fetch") =>
           (loop.pc = "sleep" /\ loop'.cycle = loop.cycle + 1)

\* C17 (amended): after every cycle, also one that ran longer than the
\* configured interval, the loop sleeps one full interval before it starts
\* the next cycle.
C17_AlwaysSleeps == [][C17_Step]_vars

\* a cycle that swept a room took longer than the interval, and the loop
\* sleeps
C17_Witness ==
    /\ loop.pc = "sleep"
    /\ loop.overran
    /\ \E n \in ServerNodes : nodes[n].Status # StatusUnknown

\* ------------------------------------------------------------------------
\* properties of the tree over the lifetime of the process
\* ------------------------------------------------------------------------
\* C18: there is exactly one room node per room id and it is the same node
\* for the lifetime of the process: once treeData holds a node for a room id,
\* no later step stores a different node under that id.
C18_RoomNodeStable ==
    [][\A r \in RoomIDs :
          treeData[r] # NullNode => treeData'[r] = treeData[r]]_vars

\* C19: in every reachable state no room node has two children with the same
\* server name.
C19_OneNodePerServer ==
    \A n \in RoomNodes :
        \A i, j \in 1..Len(nodes[n].Children) :
            nodes[nodes[n].Children[i]].Name = nodes[nodes[n].Children[j]].Name
                => i = j

\* the server names below what treeData holds for room id r
ChildDomains(map, heap, r) ==
    IF map[r] = NullNode
    THEN {}
    ELSE {heap[heap[map[r]].Children[j]].Name :
              j \in 1..Len(heap[map[r]].Children)}

\* C20: nodes are never removed: the set of room ids in the tree and the set
\* of server names below each of them only grow from step to step.
C20_NeverRemoved ==
    [][\A r \in RoomIDs :
          /\ treeData[r] # NullNode => treeData'[r] # NullNode
          /\ ChildDomains(treeData, nodes, r)
                \subseteq ChildDomains(treeData', nodes', r)]_vars

\* ------------------------------------------------------------------------
\* properties of the user counts
\* ------------------------------------------------------------------------
\* room goroutine i has ranged over all its servers and all its server
\* goroutines have returned: its sweep of the room is complete
SweepComplete(i) ==
    /\ gtask[i].pc = "range"
    /\ gtask[i].uniqueServers = {}
    /\ \A k \in ServerTasksOf(i) : stask[k].pc = "done"

\* the members among members whose user id has the domain server
MembersOn(members, server) ==
    Cardinality({u \in members : extractDomain(u) = server})

C21_Swept ==
    \A i \in 1..Len(gtask) :
        SweepComplete(i) =>
            \A c \in Range(nodes[gtask[i].roomNode].Children) :
                nodes[c].Name \in UniqueServers(gtask[i].members) =>
                    nodes[c].UserCount
                        = MembersOn(gtask[i].members, nodes[c].Name)

\* status and user count of a node change only in the one step in which a
\* server goroutine holding the node writes both
C21_Step ==
    \A n \in 1..Len(nodes) :
        (\/ nodes'[n].Status # nodes[n].Status
         \/ nodes'[n].UserCount # nodes[n].UserCount) =>
            \E k \in DOMAIN stask :
                /\ stask[k].pc = "update"
                /\ stask[k].serverNode = n
                /\ nodes'[n].Status = stask[k].status
                /\ nodes'[n].UserCount = stask[k].userCount

Response == JsonObject(<<"Root">>, <<>>, <<"ok">>, 0, snap.out)

\* C22: a server node is created with status "unknown" and is in the
\* exported tree from its creation on: every snapshot taken when the node was
\* a child of its room has an object for it, with a status, and the status
\* reads "unknown" as long as no server goroutine has written one.
C22_UnknownNotAbsent ==
    snap.pc = "done" =>
        \A i \in 1..Len(snap.root) :
            LET early == Kids(snap.copy[i])
                kids == Kids(snap.out[i])
                children == nodes[snap.root[i]].Children
            IN  /\ Len(kids) >= Len(early)
                /\ \A j \in 1..Len(early) :
                      /\ kids[j].name = early[j].name
                      /\ "status" \in DOMAIN kids[j]
                      /\ nodes[children[j]].Status = StatusUnknown =>
                            kids[j].status = StatusUnknown

\* a snapshot is done that was taken when node a existed, and no server
\* goroutine has yet written to the node: the object of a reads "unknown"
C22_Witness ==
    /\ snap.pc = "done"
    /\ Len(snap.root) = 1
    /\ Len(Kids(snap.copy[1])) = 1
    /\ Kids(snap.out[1])[1].status = StatusUnknown
    /\ nodes[nodes[snap.root[1]].Children[1]].Status = StatusUnknown

\* C23: the exported tree reflects the most recent write per node: the
\* status the encoder reads for a server node is the status the node has in
\* that instant, the one written by the server goroutine that completed
\* last, never the value of an earlier write.
C23_MostRecentWrite ==
    snap.pc = "count" => \A h \in snap.held : snap.status = h[1]

\* the number of levels of the response
Depth ==
    IF snap.out = <<>>
    THEN 1
    ELSE IF \A i \in 1..Len(snap.out) : Kids(snap.out[i]) = <<>>
         THEN 2
         ELSE IF \A i \in 1..Len(snap.out) :
                     \A j \in 1..Len(Kids(snap.out[i])) :
                         Kids(Kids(snap.out[i])[j]) = <<>>
              THEN 3
              ELSE 4

\* the root is named "Root" with status "ok", it has a child for each room
\* node that was collected, every room node has status "ok" at all times and
\* in the response, and below a room node are only nodes without children
C28_Tree ==
    /\ \A n \in RoomNodes : nodes[n].Status = <<"ok">>
    /\ \A n \in ServerNodes : nodes[n].Children = <<>>
    /\ snap.pc = "done" =>
          /\ Response.name = <<"Root">>
          /\ Response.status = <<"ok">>
          /\ Len(snap.out) = Len(snap.root)
          /\ Depth <= 3
          /\ \A i \in 1..Len(snap.out) :
                /\ snap.out[i].name = nodes[snap.root[i]].Name
                /\ snap.out[i].status = <<"ok">>
                /\ \A j \in 1..Len(Kids(snap.out[i])) :
                      "children" \notin DOMAIN Kids(snap.out[i])[j]

\* treeData.Range collects one node for each room id that has one
C28_Step ==
    (snap.pc = "idle" /\ snap'.pc # "idle") =>
        /\ Range(snap'.root) = RoomNodes
        /\ Len(snap'.root) = Cardinality({r \in RoomIDs : treeData[r] # NullNode})

\* C28: every snapshot is a tree of depth exactly 3 with a root named "Root"
\* and status "ok", exactly one child per room id in the tree, every room node
\* with status "ok" at all times, and only server nodes, which have no
\* children, below room nodes.
C28_DepthExactlyThree == C28_Tree /\ (snap.pc = "done" => Depth = 3)

\* C28 (amended): every snapshot is a tree of depth at most 3 (the root
\* alone while no room is recorded, two levels while no recorded room has a
\* server node), with a root named "Root" and status "ok", exactly one child
\* per room id in the tree, every room node with status "ok" at all times,
\* and only server nodes, which have no children, below room nodes.
C28_DepthAtMostThree == [](C28_Tree) /\ [][C28_Step]_vars

\* a response of three levels is written: the root, the room, its two servers
C28_Witness ==
    /\ snap.pc = "done"
    /\ Depth = 3
    /\ Len(snap.out) = 1
    /\ Len(Kids(snap.out[1])) = 2

\* ------------------------------------------------------------------------
\* the order of events in a server goroutine
\* ------------------------------------------------------------------------
\* the node is there, a child of its room under the server's name, from the
\* start; the probe is the last call and is issued only when
\* resolveMatrixServer has returned without error; the node reads "unknown"
\* until the goroutine has written
C26_Order ==
    /\ task.serverNode \in 1..Len(nodes)
    /\ task.serverNode \in Range(nodes[1].Children)
    /\ nodes[task.serverNode].Name = task.server
    /\ \A i \in 1..Len(calls) : calls[i] = "probe" => i = Len(calls)
    /\ Len(calls) > 0 /\ calls[Len(calls)] = "probe" =>
          /\ Returned
          /\ task.err = NoError
          /\ task.pc \in {"update", "done"}
    /\ task.pc = "probe" => task.err = NoError
    /\ task.pc # "done" => nodes[task.serverNode].Status = StatusUnknown

\* no call of resolveMatrixServer is issued once it has returned; the status
\* is written when every call has got its answer, and no call follows it
C26_Step ==
    /\ Returned => ResolveCalls' = ResolveCalls
    /\ nodes' # nodes =>
          /\ task.pc = "update"
          /\ task'.pc = "done"
          /\ calls' = calls
          /\ task.err = NoError =>
                (calls # <<>> /\ calls[Len(calls)] = "probe")
    /\ task.pc = "done" => calls' = calls

\* C26: within every server goroutine the events are strictly ordered: the
\* server node exists before discovery starts, discovery completes before the
\* probe starts, the probe (when issued) completes before the status write,
\* and the probe is issued only if resolution succeeded.
C26_EventsOrdered == [](C26_Order) /\ [][C26_Step]_vars

\* a goroutine has written "OK" after well-known, the first SRV lookup and
\* the probe, in this order
C26_Witness ==
    /\ task.pc = "done"
    /\ calls = <<"wellknown", "srvfed", "probe">>
    /\ nodes[task.serverNode].Status = StatusOnline

\* C27: a room goroutine returns only after every server goroutine it
\* started has written its status, and the loop begins its interval sleep
\* only after every room goroutine of the cycle has returned.
C27_JoinsBeforeSleep ==
    /\ \A i \in 1..Len(gtask) :
          gtask[i].pc = "done" =>
              /\ \A server \in DOMAIN gtask[i].userCounts :
                    <<i, server>> \in DOMAIN stask
              /\ \A k \in ServerTasksOf(i) :
                    /\ stask[k].pc = "done"
                    /\ nodes[stask[k].serverNode].Status # StatusUnknown
    /\ loop.pc = "sleep" => \A i \in 1..Len(gtask) : gtask[i].pc = "done"

\* the loop sleeps after its first cycle: the goroutine of the room has
\* returned, and its two server goroutines have written
C27_Witness ==
    /\ loop.pc = "sleep"
    /\ loop.cycle = 1
    /\ \E i \in 1..Len(gtask) :
          /\ gtask[i].pc = "done"
          /\ Cardinality(ServerTasksOf(i)) = 2
          /\ \A k \in ServerTasksOf(i) :
                nodes[stask[k].serverNode].Status # StatusUnknown

\* ------------------------------------------------------------------------
\* the log room, and members whose id has no domain
\* ------------------------------------------------------------------------
\* no goroutine of the log room fetches members, gets a room node or starts
\* a server goroutine, and treeData never has an entry for the log room
C24_LogRoomSkipped ==
    /\ treeData[LogRoom] = NullNode
    /\ \A i \in 1..Len(gtask) :
          gtask[i].roomID = LogRoom =>
              /\ gtask[i].pc \in {"start", "done"}
              /\ gtask[i].members = {}
              /\ gtask[i].roomNode = NullNode
              /\ ServerTasksOf(i) = {}

\* C24: the log room is never swept: in no cycle are its members fetched,
\* no room node is ever created for it and no server goroutine runs on its
\* behalf, while every other joined room gets exactly one room goroutine per
\* cycle.
C24_LogRoomOnlySkipped ==
    /\ C24_LogRoomSkipped
    /\ Len(gtask) > 0 =>
          \A r \in Range(joinedRooms) \ {LogRoom} :
              Cardinality({i \in 1..Len(gtask) : gtask[i].roomID = r}) = 1

\* cycles followed with a member whose id has no colon
MaxMalformedCycles == 1

\* client.JoinedMembers for a room in which a member id without a colon is
\* reported
MalformedResponses ==
    {[kind |-> "err", joined |-> {}]}
    \cup {[kind |-> "ok", joined |-> m] :
              m \in (SUBSET { <<"@", "u", ":", "a">>, <<"@", "x">> }) \ {{}}}

NextMalformed ==
    \/ JoinedRoomsFailed(MaxMalformedCycles)
    \/ JoinedRooms(DistinctJoinedLists, MaxMalformedCycles)
    \/ SweepNext(MalformedResponses)

SpecMalformed == Init /\ [][NextMalformed]_vars

\* C25: member ids with no separator yield an empty domain and are dropped:
\* no server node with an empty name is ever created and no server goroutine
\* ever resolves or probes the empty domain.
C25_EmptyDomainDropped ==
    /\ \A n \in 1..Len(nodes) : nodes[n].Name # <<>>
    /\ \A k \in DOMAIN stask : k[2] # <<>>

\* ------------------------------------------------------------------------
\* who creates nodes
\* ------------------------------------------------------------------------
\* a room goroutine that is past getOrCreateRoomNode
HasRoomNode(i) == gtask[i].roomNode # NullNode

\* the details of a room are fetched at most once, a room with a node has
\* had them fetched, and a goroutine past getOrCreateRoomNode has the node
\* treeData holds for its room
C29_State ==
    /\ \A r \in RoomIDs :
          /\ fetches[r] <= 1
          /\ treeData[r] # NullNode => fetches[r] = 1
    /\ \A i \in 1..Len(gtask) :
          HasRoomNode(i) => gtask[i].roomNode = treeData[gtask[i].roomID]

\* a node is stored for a room, and its details are fetched, only while the
\* room has no node and only by a goroutine that has fetched its members
C29_Step ==
    \A r \in RoomIDs :
        (treeData'[r] # treeData[r] \/ fetches'[r] # fetches[r]) =>
            /\ treeData[r] = NullNode
            /\ \E i \in 1..Len(gtask) : /\ gtask[i].roomID = r
                                          /\ gtask[i].members # {}

\* C29: a room node is created only by a room goroutine whose member fetch
\* succeeded; over the whole run the details (title, alias, avatar) of a room
\* id are fetched exactly once, in the first cycle with a successful member
\* fetch, and never again.
C29_CreatedOnceAfterFetch == [](C29_State) /\ [][C29_Step]_vars

\* no two room goroutines are inside the append of getOrCreateServerNode for
\* the same room node
C30_State ==
    \A i, j \in 1..Len(gtask) :
        (/\ gtask[i].pc \in {"append", "assign"}
         /\ gtask[j].pc \in {"append", "assign"}
         /\ gtask[i].roomNode = gtask[j].roomNode) => i = j

\* a step of a server goroutine creates no node and changes no child list,
\* the node handed to a new server goroutine is a child of its room, and no
\* step takes a child off a list
C30_Step ==
    /\ \A n \in 1..Len(nodes) : IsPrefix(nodes[n].Children, nodes'[n].Children)
    /\ (\E k \in (DOMAIN stask) \cap (DOMAIN stask') : stask'[k] # stask[k]) =>
          /\ Len(nodes') = Len(nodes)
          /\ \A n \in 1..Len(nodes) : nodes'[n].Children = nodes[n].Children
    /\ \A k \in (DOMAIN stask') \ (DOMAIN stask) :
          stask'[k].serverNode \in Range(nodes'[gtask[k[1]].roomNode].Children)

\* C30: all changes of a room's child list are made by the room's own
\* goroutine, before it hands the node to a server goroutine: server
\* goroutines never create or append nodes and only write the status of a
\* node that exists, so two appends to the same child list are never
\* concurrent and no appended node is lost.
C30_SingleAppender == [](C30_State) /\ [][C30_Step]_vars

\* ------------------------------------------------------------------------
\* one server goroutine for each domain
\* ------------------------------------------------------------------------
\* the servers room goroutine i has started a goroutine for
SpawnedServers(i) == {k[2] : k \in ServerTasksOf(i)}

\* no two server goroutines of the cycle are for the same server of the same
\* room, and the servers a room goroutine has started a goroutine for and
\* those it has yet to range over are, without overlap, the domains of the
\* members it fetched
C31_State ==
    /\ \A k1, k2 \in DOMAIN stask :
          (/\ gtask[k1[1]].roomID = gtask[k2[1]].roomID
           /\ k1[2] = k2[2]) => k1 = k2
    /\ \A i \in 1..Len(gtask) :
          gtask[i].pc \in {"range", "append", "assign"} =>
              /\ SpawnedServers(i) \cup gtask[i].uniqueServers
                    = {extractDomain(u) : u \in gtask[i].members}
              /\ SpawnedServers(i) \cap gtask[i].uniqueServers = {}

\* no server goroutine is started a second time for the server of one that
\* the room goroutine has started in this cycle
C31_Step ==
    \A k \in (DOMAIN stask) \cap (DOMAIN stask') :
        stask'[k].pc = "check" => stask[k].pc = "check"

\* C31: in each cycle a room goroutine starts exactly one server goroutine
\* for each distinct domain among the members of the room: no domain is
\* resolved or probed twice for the same room in the same cycle, however
\* many members share it, and every distinct domain gets a server goroutine.
C31_OneTaskPerDomain == [](C31_State) /\ [][C31_Step]_vars

\* the same for the goroutines of one room goroutine only
C31_PerRoomGoroutine ==
    \A i \in 1..Len(gtask) :
        gtask[i].pc \in {"range", "append", "assign"} =>
            /\ SpawnedServers(i) \cup gtask[i].uniqueServers
                  = {extractDomain(u) : u \in gtask[i].members}
            /\ SpawnedServers(i) \cap gtask[i].uniqueServers = {}

\* ------------------------------------------------------------------------
\* member ids whose server part has a port
\* ------------------------------------------------------------------------
\* cycles followed with a member on a server named with its port
MaxPortedCycles == 1

\* client.JoinedMembers for a room with a member of a server that is named
\* with an explicit port
PortedResponses ==
    {[kind |-> "err", joined |-> {}]}
    \cup {[kind |-> "ok", joined |-> m] :
              m \in (SUBSET { <<"@", "u", ":", "a">>,
                              <<"@", "v", ":", "a", ":", "8">>,
                              <<"@", "w", ":", "b", ":", "8">> }) \ {{}}}

NextPorted ==
    \/ JoinedRoomsFailed(MaxPortedCycles)
    \/ JoinedRooms(DistinctJoinedLists, MaxPortedCycles)
    \/ SweepNext(PortedResponses)

SpecPorted == Init /\ [][NextPorted]_vars

\* what follows the first colon of an id that has one
C32_AfterSeparator(userID) ==
    LET first == CHOOSE i \in 1..Len(userID) :
                     /\ userID[i] = ":"
                     /\ \A j \in 1..(i - 1) : userID[j] # ":"
    IN  SubSeq(userID, first + 1, Len(userID))

\* C32: for every member id that contains the separator ':' extractDomain
\* returns all of the id after the first separator, a port included
\* ('@u:host:8448' gives 'host:8448'): the servers a room goroutine ranges
\* over are those parts of its members' ids.
C32_WholeServerPart ==
    \A i \in 1..Len(gtask) :
        gtask[i].pc = "range" =>
            \A u \in gtask[i].members :
                Count(u, ":") > 0 =>
                    /\ extractDomain(u) = C32_AfterSeparator(u)
                    /\ C32_AfterSeparator(u)
                          \in SpawnedServers(i) \cup gtask[i].uniqueServers

\* ------------------------------------------------------------------------
\* a well-known answer that cannot be used
\* ------------------------------------------------------------------------
\* the request failed, the status is not 200, the body is no JSON, or the
\* m.server field is missing or empty
C33_Unusable(resp) ==
    IF resp.kind # "resp" THEN TRUE
    ELSE \/ resp.code # StatusOK
         \/ ~resp.body.json
         \/ ~resp.body.hasServer
         \/ resp.body.server = <<>>

\* what the three later steps yield from the answers they got: the first
\* address found, or the error that names the server
C33_LaterSteps ==
    LET fed == SrvStep(obs.srvfed)
        dep == SrvStep(obs.srvdep)
        host == HostStep(task.server, obs.host)
    IN  IF fed.ok THEN [addr |-> fed.addr, err |-> NoError]
        ELSE IF dep.ok THEN [addr |-> dep.addr, err |-> NoError]
        ELSE IF host.ok THEN [addr |-> host.addr, err |-> NoError]
        ELSE [addr |-> <<>>, err |-> ResolveError(task.server)]

\* C33: a well-known step that yields no usable m.server field (request
\* error, status other than 200, body that is no JSON, field empty or
\* missing) is no error of resolveMatrixServer: the _matrix-fed SRV lookup
\* comes next, and what is returned is what the later steps alone yield, as
\* it is after a well-known request that failed outright.
C33_WellKnownFallsThrough ==
    (ResolveCalls # <<>> /\ C33_Unusable(obs.wellknown)) =>
        /\ Len(ResolveCalls) = 1 =>
              /\ task.pc = "srvfed"
              /\ task.err = NoError
        /\ Len(ResolveCalls) >= 2 => ResolveCalls[2] = "srvfed"
        /\ Returned =>
              /\ task.matrixServer = C33_LaterSteps.addr
              /\ task.err = C33_LaterSteps.err

\* a 404 that carries a delegation document all the same: the SRV record
\* decided
C33_Witness ==
    /\ task.pc = "done"
    /\ obs.wellknown.kind = "resp"
    /\ obs.wellknown.code = 404
    /\ obs.wellknown.body.hasServer
    /\ ResolveCalls = <<"wellknown", "srvfed">>
    /\ task.matrixServer = <<"x", ":", "4", "4", "3">>

\* ------------------------------------------------------------------------
\* progress of the sweep
\* ------------------------------------------------------------------------
\* the Go scheduler runs every goroutine that can run, each network call
\* returns and time.Sleep ends: the loop, every room goroutine and every
\* server goroutine takes its next step once it stays possible
Fairness ==
    /\ WF_vars(JoinedRoomsFailed(MaxCycles)
               \/ JoinedRooms(DistinctJoinedLists, MaxCycles))
    /\ WF_vars(LoopWait)
    /\ WF_vars(LoopSleep)
    /\ \A i \in 1..MaxJoined :
          WF_vars(i <= Len(gtask) /\ RoomNext(i, MemberResponses))
    /\ \A i \in 1..MaxJoined : \A server \in UniqueServers(Users) :
          WF_vars(<<i, server>> \in DOMAIN stask /\ ServerNext(<<i, server>>))

SpecFair == Init /\ [][Next]_vars /\ Fairness

\* at the end of a round whose room list was fetched every room goroutine
\* has finished and every server goroutine it started has written a status
C34_AllDone ==
    (loop.pc = "sleep" /\ ~loop.err) =>
        /\ \A i \in 1..Len(gtask) : gtask[i].pc = "done"
        /\ \A k \in DOMAIN stask :
              /\ stask[k].pc = "done"
              /\ nodes[stask[k].serverNode].Status # StatusUnknown

\* C34: every cycle completes and is followed by the next one, whatever
\* fails in it (the room list, a member fetch, a resolution, a probe): every
\* server goroutine that was started writes a status, every room goroutine
\* finishes, and the loop goes on to the next round.
C34_EveryCycleCompletes ==
    /\ [](C34_AllDone)
    /\ \A c \in 1..MaxCycles :
          (loop.cycle = c) ~> (loop.cycle = c + 1 /\ loop.pc = "fetch")

\* the round after one in which the members of a room could not be fetched
\* and a server could not be resolved
C34_Witness ==
    /\ loop.cycle = MaxCycles + 1
    /\ \E i \in 1..Len(gtask) : /\ gtask[i].roomID # LogRoom
                                  /\ gtask[i].pc = "done"
                                  /\ gtask[i].userCounts = NoTasks
    /\ \E n \in 1..Len(nodes) :
          nodes[n].Status = StatusDelegationFailed(ResolveError(<<"a">>))

\* ------------------------------------------------------------------------
\* the log mutex
\* ------------------------------------------------------------------------
\* cycles followed with the log statements of the goroutines
MaxLogCycles == 1

\* the log statement a goroutine has come to: room goroutine <<i>> at
\* "Skipping log room", at "Processing room", or, client.JoinedMembers having
\* failed, at "Failed to get joined members"; server goroutine <<i, server>>
\* at "Before updating", with its status computed, or at "After updating",
\* with the status written
LogAt(g, section) ==
    /\ <<g, section>> \notin loop.logged
    /\ IF Len(g) = 1
       THEN /\ g[1] \in 1..Len(gtask)
            /\ gtask[g[1]].pc = "start"
            /\ CASE section = "skip" -> gtask[g[1]].roomID = LogRoom
                 [] section = "processing" -> gtask[g[1]].roomID # LogRoom
                 [] section = "failed" ->
                        /\ gtask[g[1]].roomID # LogRoom
                        /\ <<g, "processing">> \in loop.logged
                 [] OTHER -> FALSE
       ELSE /\ g \in DOMAIN stask
            /\ CASE section = "before" -> stask[g].pc = "update"
                 [] section = "after" ->
                        /\ stask[g].pc = "done"
                        /\ <<g, "before">> \in loop.logged
                 [] OTHER -> FALSE

\* the goroutine that holds the mutex
LogHolder == IF loop.logMutex = NoHolder THEN NoHolder ELSE loop.logMutex[1]

LogSections == {"skip", "processing", "failed", "before", "after"}

\* a log statement that leaves the mutex locked after its fmt.Printf
LogPrintNoUnlock ==
    /\ loop.logMutex # NoHolder
    /\ loop.logMutex \notin loop.logged
    /\ loop' = [loop EXCEPT !.logged = @ \cup {loop.logMutex}]
    /\ UNCHANGED <<treeData, nodes, joinedRooms, gtask, stask, fetches, taskVars,
                   snap>>

\* logMutex.Lock(): the goroutine goes on once nobody holds the mutex
LogLock(g, section) ==
    /\ LogAt(g, section)
    /\ loop.logMutex = NoHolder
    /\ loop' = [loop EXCEPT !.logMutex = <<g, section>>]
    /\ UNCHANGED <<treeData, nodes, joinedRooms, gtask, stask, fetches, taskVars,
                   snap>>

\* fmt.Printf(...) and logMutex.Unlock()
LogPrintUnlock ==
    /\ loop.logMutex # NoHolder
    /\ loop' = [loop EXCEPT !.logMutex = NoHolder,
                            !.logged = @ \cup {loop.logMutex}]
    /\ UNCHANGED <<treeData, nodes, joinedRooms, gtask, stask, fetches, taskVars,
                   snap>>

\* the start of a room goroutine with its log statements: the log room is
\* skipped after "Skipping log room", client.JoinedMembers is called after
\* "Processing room", and the goroutine returns on its error after "Failed
\* to get joined members"
LogRoomJoinedMembers(i) ==
    /\ LogHolder # <<i>>
    /\ IF gtask[i].roomID = LogRoom
       THEN /\ << <<i>>, "skip" >> \in loop.logged
            /\ RoomJoinedMembers(i, MemberResponses)
       ELSE IF << <<i>>, "failed" >> \in loop.logged
       THEN RoomJoinedMembers(i, {resp \in MemberResponses : resp.kind = "err"})
       ELSE /\ << <<i>>, "processing" >> \in loop.logged
            /\ RoomJoinedMembers(i, {resp \in MemberResponses : resp.kind = "ok"})

\* serverWg.Wait(): a server goroutine is done after its last log statement
LogRoomWait(i) ==
    /\ \A k \in ServerTasksOf(i) : <<k, "after">> \in loop.logged
    /\ RoomWait(i)

\* serverNode.Status = status, between the two log statements
LogServerUpdateStatus(k) ==
    /\ <<k, "before">> \in loop.logged
    /\ ServerUpdateStatus(k)

LogRoomNext(i) ==
    \/ \E section \in LogSections : LogLock(<<i>>, section)
    \/ LogHolder = <<i>> /\ LogPrintUnlock
    \/ LogRoomJoinedMembers(i)
    \/ RoomLoad(i)
    \/ RoomDetails(i)
    \/ RoomStore(i)
    \/ RoomRangeFind(i)
    \/ RoomRangeAppend(i)
    \/ RoomRangeAssign(i)
    \/ LogRoomWait(i)

LogServerNext(k) ==
    \/ \E section \in LogSections : LogLock(k, section)
    \/ LogHolder = k /\ LogPrintUnlock
    \/ ServerCheck(k)
    \/ LogServerUpdateStatus(k)

NextLog ==
    \/ JoinedRoomsFailed(MaxLogCycles)
    \/ JoinedRooms(DistinctJoinedLists, MaxLogCycles)
    \/ LoopWait
    \/ LoopSleep
    \/ \E i \in 1..Len(gtask) : LogRoomNext(i)
    \/ \E k \in DOMAIN stask : LogServerNext(k)

SpecLog == Init /\ [][NextLog]_vars

\* the frame of a goroutine
C35_FrameOf(g, rooms, servers) ==
    IF Len(g) = 1 THEN rooms[g[1]] ELSE servers[g]

\* a room goroutine at serverWg.Wait() with a server goroutine of its own
\* still running
C35_AtServerJoin(i) ==
    /\ gtask[i].pc = "range"
    /\ gtask[i].uniqueServers = {}
    /\ \E k \in ServerTasksOf(i) :
          stask[k].pc # "done" \/ <<k, "after">> \notin loop.logged

\* a goroutine at logMutex.Lock() while another goroutine holds the mutex
C35_AtLock(g) ==
    /\ LogHolder \notin {NoHolder, g}
    /\ \E section \in LogSections : LogAt(g, section)

\* a goroutine that has not finished can take a step unless it is at one of
\* the two joins with a goroutine it waits for still running, or at a Lock
\* of the mutex that another goroutine holds; and the goroutine that holds
\* the mutex can print and unlock
C35_WaitsOnlyAtJoins ==
    /\ \A i \in 1..Len(gtask) :
          gtask[i].pc # "done" =>
              \/ ENABLED LogRoomNext(i)
              \/ C35_AtServerJoin(i)
              \/ C35_AtLock(<<i>>)
    /\ \A k \in DOMAIN stask :
          (/\ loop.pc = "wait"
           /\ stask[k].pc # "done" \/ <<k, "after">> \notin loop.logged) =>
              \/ ENABLED LogServerNext(k)
              \/ C35_AtLock(k)
    /\ loop.pc = "wait" =>
          \/ ENABLED LoopWait
          \/ \E i \in 1..Len(gtask) : gtask[i].pc # "done"
    /\ loop.pc = "sleep" => ENABLED LoopSleep
    /\ loop.logMutex # NoHolder => ENABLED LogPrintUnlock
    /\ loop.cycle <= MaxLogCycles => ENABLED NextLog

\* while a goroutine holds the mutex it takes no other step: it makes no
\* network call, passes no join and takes no lock before it has unlocked
C35_Step ==
    (loop.logMutex # NoHolder /\ loop'.logMutex = loop.logMutex) =>
        /\ C35_FrameOf(LogHolder, gtask', stask')
              = C35_FrameOf(LogHolder, gtask, stask)
        /\ loop' = loop

\* C35: the sweep never deadlocks: a goroutine waits for another one only at
\* the two WaitGroup joins (the room goroutine for its server goroutines,
\* the loop for its room goroutines), and the log mutex is never held
\* across a network call, a join or the taking of another lock.
C35_NoDeadlock == [](C35_WaitsOnlyAtJoins) /\ [][C35_Step]_vars

\* a server goroutine at the Lock before "After updating" while another
\* server goroutine holds the mutex and its room goroutine waits at the join
C35_Witness ==
    /\ \E k \in DOMAIN stask :
          /\ C35_AtLock(k)
          /\ stask[k].pc = "done"
          /\ C35_AtServerJoin(k[1])
          /\ Len(LogHolder) = 2

\* ------------------------------------------------------------------------
\* who writes a server node
\* ------------------------------------------------------------------------
\* C36: at any moment at most one server goroutine holds a given server
\* node, so that two writes of the status of one node are never concurrent,
\* whatever list of joined rooms the client returns, one that names a room
\* id more than once included.
C36_OneWriterPerNode ==
    \A k1, k2 \in DOMAIN stask :
        (/\ stask[k1].pc # "done"
         /\ stask[k2].pc # "done"
         /\ stask[k1].serverNode = stask[k2].serverNode) => k1 = k2

\* ------------------------------------------------------------------------
\* the status of a server node over time
\* ------------------------------------------------------------------------
\* every step that changes the status of a node writes "OK", "Failed
\* (Unreachable)" or "Failed (Delegation Failed: ...)" for the node's server,
\* and a status that is not "unknown" does not become "unknown"
C37_Step ==
    \A n \in 1..Len(nodes) :
        /\ nodes'[n].Status # nodes[n].Status =>
              nodes'[n].Status \in
                  {<<"OK">>, <<"Failed (Unreachable)">>,
                   <<"Failed (Delegation Failed: ",
                     "could not resolve Matrix server for ">>
                   \o nodes[n].Name \o <<")">>}
        /\ nodes[n].Status # <<"unknown">> => nodes'[n].Status # <<"unknown">>

\* C37: once the status of a server node has left "unknown" it never is
\* "unknown" again: every later write sets it to "OK", "Failed
\* (Unreachable)" or "Failed (Delegation Failed: ...)".
C37_NeverUnknownAgain == [][C37_Step]_vars

\* in the second cycle a server goroutine is about to replace the status a
\* node got in the first cycle by another one
C37_Witness ==
    /\ loop.cycle = 2
    /\ \E k \in DOMAIN stask :
          /\ stask[k].pc = "update"
          /\ nodes[stask[k].serverNode].Status = <<"OK">>
          /\ stask[k].status # <<"OK">>

\* ------------------------------------------------------------------------
\* what a cycle leaves alone
\* ------------------------------------------------------------------------
\* room r is swept in this cycle by a goroutine that has fetched members on
\* one of servers: it is in the joined list and is not the log room
C38_Swept(r, servers) ==
    /\ r \in Range(joinedRooms) \ {LogRoom}
    /\ \E i \in 1..Len(gtask) :
          /\ gtask[i].roomID = r
          /\ \E u \in gtask[i].members : extractDomain(u) \in servers

\* the server nodes of room r that the cycle is to leave alone: all of them
\* if the room is not in the list or its members were not fetched, else
\* those of servers that none of the members fetched is on
C38_Unswept(r) ==
    IF treeData[r] = NullNode THEN {}
    ELSE {n \in Range(nodes[treeData[r]].Children) :
             ~C38_Swept(r, {nodes[n].Name})}

\* no server goroutine that is running resolves, probes or is to write a
\* node that the cycle is to leave alone
C38_State ==
    \A r \in RoomIDs : \A n \in C38_Unswept(r) : \A k \in DOMAIN stask :
        stask[k].pc # "done" => stask[k].serverNode # n

\* no step changes a server node that the cycle is to leave alone, and the
\* entry and the node of a room that is not swept stay as they are
C38_Step ==
    \A r \in RoomIDs :
        /\ \A n \in C38_Unswept(r) : nodes'[n] = nodes[n]
        /\ (treeData[r] # NullNode /\ ~C38_Swept(r, UniqueServers(Users))) =>
              /\ treeData'[r] = treeData[r]
              /\ nodes'[treeData[r]] = nodes[treeData[r]]

\* C38: a cycle leaves unchanged every server node whose domain is not among
\* the members of its room in that cycle, and every node of a room that is
\* not in the joined list of that cycle or whose members could not be
\* fetched: such nodes keep the status last written and are not probed.
C38_UnsweptUnchanged == [](C38_State) /\ [][C38_Step]_vars

\* the end of a second cycle that swept server a of the room only, while
\* the node of server b keeps the status of the first cycle
C38_Witness ==
    /\ loop.cycle = 2
    /\ loop.pc = "sleep"
    /\ \E i \in 1..Len(gtask) :
          /\ DOMAIN gtask[i].userCounts = {<<"a">>}
          /\ \E n \in Range(nodes[treeData[gtask[i].roomID]].Children) :
                /\ nodes[n].Name = <<"b">>
                /\ nodes[n].Status = <<"Failed (Unreachable)">>

====
